---- MODULE Spec2Model ----
(***************************************************************************)
(* Instance lifecycle and concurrency bridge of MXU (src-tauri).           *)
(*                                                                         *)
(* The state is the instance registry (MaaState.instances), the two        *)
(* mutexes every command takes (MAA_LIBRARY and MaaState.instances), the   *)
(* native engine's view of the handles the bridge created, the agent child *)
(* processes, and the position and locals of every command in progress.    *)
(* A command is cut into steps at the points where it takes a lock or      *)
(* enters a native call that waits; what lies between two such points is   *)
(* one action.                                                             *)
(***************************************************************************)
EXTENDS Integers, Sequences, FiniteSets, TLC

\* ------------------------------------------------------------------------
\* Bounds of the model
\* ------------------------------------------------------------------------
\* handles the engine has handed out and whose address it has not reused
MaxHandles == 4
\* agent child processes
MaxProcs == 2
\* length of the task-id cache of an instance
MaxTaskIds == 2
\* tasks of one maa_start_tasks, paths of one maa_load_resource
MaxBatch == 2
\* entries of a device or window list of the toolkit
MaxDevices == 2
\* reads of one output stream of an agent that return data
MaxLines == 2

\* ------------------------------------------------------------------------
\* Program constants
\* ------------------------------------------------------------------------
MAA_INVALID_ID == 0
MAA_STATUS_PENDING == 1000
MAA_STATUS_RUNNING == 2000
MAA_STATUS_SUCCEEDED == 3000

Threads == {1, 2}
InstanceIds == {"a", "b"}
Kinds == {"resource", "controller", "tasker", "agent_client"}
Handles == 1..MaxHandles
Procs == 1..MaxProcs
NULL == 0
NoThread == 0
ControllerConfigs == {"Adb", "PlayCover"}
\* the codes maa_tasker_status is taken to return: the three the bridge
\* names, the engine's failed and invalid codes, a negative and an unknown one
StatusCodes == {-1, 0, MAA_STATUS_PENDING, MAA_STATUS_RUNNING, MAA_STATUS_SUCCEEDED, 4000, 5000}

VARIABLES
    libLoaded,   \* MAA_LIBRARY holds Some(lib)
    libLock,     \* owner of the MAA_LIBRARY mutex, NoThread when free
    regLock,     \* owner of the MaaState.instances mutex
    instances,   \* the HashMap<String, InstanceRuntime>
    native,      \* the engine's handles of each kind: liveness, bindings
    procs,       \* agent child processes
    pc,          \* position of each command thread
    loc,         \* locals, result and native-call log of each command
    cached_adb_devices,     \* MaaState.cached_adb_devices
    cached_win32_windows,   \* MaaState.cached_win32_windows
    agent_log    \* the output of an agent process and the two threads reading it

vars == <<libLoaded, libLock, regLock, instances, native, procs, pc, loc,
          cached_adb_devices, cached_win32_windows, agent_log>>

\* ------------------------------------------------------------------------
\* InstanceRuntime
\* ------------------------------------------------------------------------
InstanceRuntimeDefault ==
    [resource |-> NULL, controller |-> NULL, tasker |-> NULL,
     agent_client |-> NULL, agent_child |-> NULL, task_ids |-> <<>>]

\* ------------------------------------------------------------------------
\* The native engine, as far as the bridge can tell. A handle is an address
\* of its kind; state is "free" (never handed out, or given back), "live"
\* or "dead" (destroyed). res and ctrl are what a tasker or an agent client
\* was bound to; destroys counts the destroy calls on the handle; dangling
\* tells that the handle was destroyed while a live tasker was bound to it.
\* ------------------------------------------------------------------------
NoHandle ==
    [state |-> "free", res |-> NULL, ctrl |-> NULL,
     sinks |-> 0, destroys |-> 0, dangling |-> FALSE]

\* A child process: owner is the instance whose maa_start_tasks spawned it,
\* connect tells how the connect call of its agent client ended
NoProc == [state |-> "none", kills |-> 0, owner |-> "", connect |-> "none"]

HandedOut(nat) ==
    Cardinality({kh \in Kinds \X Handles : nat[kh[1]][kh[2]].state # "free"})

FreshHandles(nat, kind) ==
    IF HandedOut(nat) >= MaxHandles THEN {}
    ELSE {h \in Handles : /\ nat[kind][h].state = "free"
                          /\ \A k \in Handles : nat[kind][k].state = "free" => h <= k}

\* what a native create call can return: a null pointer or a new handle
CreateOutcomes(nat, kind) == {NULL} \cup FreshHandles(nat, kind)

FreshProcs(ps) ==
    {p \in Procs : ps[p].state = "none"
                   /\ \A q \in Procs : ps[q].state = "none" => p <= q}

\* Command::spawn either fails (NULL) or yields a new child
SpawnOutcomes(ps) == {NULL} \cup FreshProcs(ps)

LiveTaskerBoundTo(nat, kind, h) ==
    \E k \in Handles :
        /\ nat["tasker"][k].state = "live"
        /\ \/ kind = "resource" /\ nat["tasker"][k].res = h
           \/ kind = "controller" /\ nat["tasker"][k].ctrl = h

\* A world is what a run of native calls threads through: the engine's
\* handles, the processes and the log of the calls made by the command.
\* A log entry is a call on handle h that returned out, made with (reg) or
\* without the registry guard of the calling command in scope; arg is the
\* path or the task entry a post call was given.
LogArg(w, fn, h, arg, out, reg) ==
    [w EXCEPT !.calls = Append(@, [fn |-> fn, h |-> h, arg |-> arg, out |-> out,
                                   reg |-> reg])]

LogOut(w, fn, h, out, reg) == LogArg(w, fn, h, "", out, reg)

Log(w, fn, h, reg) == LogOut(w, fn, h, 0, reg)

NativeCreate(w, fn, kind, h, reg) ==
    LogOut([w EXCEPT !.native[kind][h] = [NoHandle EXCEPT !.state = "live"]],
           fn, h, h, reg)

NativeDestroy(w, fn, kind, h, reg) ==
    Log([w EXCEPT !.native[kind][h] =
            [@ EXCEPT !.state = "dead", !.res = NULL, !.ctrl = NULL, !.sinks = 0,
                      !.destroys = IF @ < 2 THEN @ + 1 ELSE @,
                      !.dangling = @ \/ LiveTaskerBoundTo(w.native, kind, h)]],
        fn, h, reg)

NativeAddSink(w, fn, kind, h, reg) ==
    Log([w EXCEPT !.native[kind][h].sinks = IF @ < 2 THEN @ + 1 ELSE @], fn, h, reg)

NativeBindResource(w, fn, kind, h, r, reg) ==
    Log([w EXCEPT !.native[kind][h].res = r], fn, h, reg)

NativeBindController(w, fn, kind, h, c, reg) ==
    Log([w EXCEPT !.native[kind][h].ctrl = c], fn, h, reg)

ChildKill(w, p, reg) ==
    Log([w EXCEPT !.procs[p] = [@ EXCEPT !.state = IF @ = "reaped" THEN @ ELSE "killed",
                                          !.kills = IF @ < 2 THEN @ + 1 ELSE @]],
        "child_kill", p, reg)

ChildWait(w, p, reg) ==
    Log([w EXCEPT !.procs[p].state = "reaped"], "child_wait", p, reg)

\* The output of an agent process: what the reads of each of its two pipes
\* will return (reads, then how the stream ends), how far each reader thread
\* has come, the lines written to the log file and the events emitted to
\* the frontend
StreamNames == {"stdout", "stderr"}

NoReader == [reads |-> <<>>, end |-> "stalled", pos |-> 0, state |-> "none"]

NoAgentLog ==
    [instance_id |-> "", opened |-> FALSE, file |-> <<>>, events |-> <<>>,
     readers |-> [s \in StreamNames |-> NoReader]]

\* ------------------------------------------------------------------------
\* Locals of a command
\* ------------------------------------------------------------------------
NoLocals ==
    [cmd |-> "", id |-> "", config |-> "", resource |-> NULL, controller |-> NULL,
     tasker |-> NULL, agent_client |-> NULL, child |-> NULL, agent |-> FALSE,
     timeout |-> [some |-> FALSE, ms |-> 0],
     args |-> <<>>, ids |-> <<>>, removed |-> InstanceRuntimeDefault, had |-> FALSE,
     ret |-> "", val |-> <<>>, calls |-> <<>>]

World(t) == [native |-> native, procs |-> procs, calls |-> loc[t].calls]

Started(cmd, id) == [NoLocals EXCEPT !.cmd = cmd, !.id = id]

\* one step of thread t: new position and locals, the world after its native
\* calls, the registry and the two locks after it
Step(t, newpc, l, w, inst, lib, reg) ==
    /\ pc' = [pc EXCEPT ![t] = newpc]
    /\ loc' = [loc EXCEPT ![t] = [l EXCEPT !.calls = w.calls]]
    /\ native' = w.native
    /\ procs' = w.procs
    /\ instances' = inst
    /\ libLock' = lib
    /\ regLock' = reg
    /\ UNCHANGED <<libLoaded, cached_adb_devices, cached_win32_windows, agent_log>>

\* the command returns: every guard it holds is dropped
Return(t, l, ret, val, w, inst) ==
    Step(t, "done", [l EXCEPT !.ret = ret, !.val = val], w, inst,
         IF libLock = t THEN NoThread ELSE libLock,
         IF regLock = t THEN NoThread ELSE regLock)

\* thread t is at position p; the result of a finished command is read by
\* the host before the next step of any command
At(t, p) == pc[t] = p /\ \A u \in Threads : pc[u] # "done"

\* thread t takes the next command of the host: the worker threads are
\* interchangeable, the idle one with the lowest number takes it
Idle(t) == At(t, "idle") /\ \A u \in Threads : u < t => pc[u] # "idle"

\* lib.rs 104-114: the library is loaded at startup when its directory exists
Init ==
    /\ libLoaded \in BOOLEAN
    /\ libLock = NoThread
    /\ regLock = NoThread
    /\ instances = << >>
    /\ native = [k \in Kinds |-> [h \in Handles |-> NoHandle]]
    /\ procs = [p \in Procs |-> NoProc]
    /\ pc = [t \in Threads |-> "idle"]
    /\ loc = [t \in Threads |-> NoLocals]
    /\ cached_adb_devices = <<>>
    /\ cached_win32_windows = <<>>
    /\ agent_log = NoAgentLog

\* ------------------------------------------------------------------------
\* maa_init: the library table is loaded (load-once, reload replaces it)
\* ------------------------------------------------------------------------
maa_init(t) ==
    /\ Idle(t)
    /\ libLock = NoThread
    /\ ~libLoaded
    /\ libLoaded' = TRUE
    /\ UNCHANGED <<libLock, regLock, instances, native, procs, pc, loc,
                   cached_adb_devices, cached_win32_windows, agent_log>>

\* handles and processes something still refers to: a field of the registry,
\* a binding of a live handle, a local of a command in progress
ReferencedHandles(t, kind) ==
    {instances[id][kind] : id \in DOMAIN instances}
    \cup {loc[u][kind] : u \in Threads \ {t}}
    \cup {loc[u].removed[kind] : u \in Threads \ {t}}
    \cup {h \in Handles : \E k \in Kinds, j \in Handles :
            /\ native[k][j].state = "live"
            /\ \/ kind = "resource" /\ native[k][j].res = h
               \/ kind = "controller" /\ native[k][j].ctrl = h}

ReferencedProcs(t) ==
    {instances[id].agent_child : id \in DOMAIN instances}
    \cup {loc[u].child : u \in Threads \ {t}}
    \cup {loc[u].removed.agent_child : u \in Threads \ {t}}

\* The host has read the result. What nothing refers to any more can never
\* appear in a later call and is forgotten: the engine is free to reuse the
\* address of such a handle, and the system the pid of a dead child. Request
\* ids are opaque to the bridge: between commands the cached ids of an
\* instance are renamed 1..n, which keeps their order and distinctness.
Renamed(task_ids) == [i \in 1..Len(task_ids) |-> i]

Finish(t) ==
    /\ pc[t] = "done"
    /\ pc' = [pc EXCEPT ![t] = "idle"]
    /\ loc' = [loc EXCEPT ![t] = NoLocals]
    /\ native' = [k \in Kinds |->
                    LET referenced == ReferencedHandles(t, k) IN
                    [h \in Handles |->
                        IF h \in referenced THEN native[k][h] ELSE NoHandle]]
    /\ procs' = [p \in Procs |->
                    IF procs[p].state \in {"killed", "reaped"} /\ p \notin ReferencedProcs(t)
                    THEN NoProc ELSE procs[p]]
    /\ instances' = IF \A u \in Threads \ {t} : loc[u].ids = <<>>
                    THEN [id \in DOMAIN instances |->
                            [instances[id] EXCEPT !.task_ids = Renamed(@)]]
                    ELSE instances
    /\ UNCHANGED <<libLoaded, libLock, regLock, cached_adb_devices, cached_win32_windows,
                   agent_log>>

\* ------------------------------------------------------------------------
\* maa_create_instance
\* ------------------------------------------------------------------------
\* variant: the insert is made without looking the id up
maa_create_instance_overwrite(t, id) ==
    /\ Idle(t)
    /\ regLock = NoThread
    /\ Return(t, [Started("maa_create_instance", id) EXCEPT !.had = id \in DOMAIN instances],
              "Ok", <<>>, World(t),
              [k \in DOMAIN instances \cup {id} |->
                  IF k = id THEN InstanceRuntimeDefault ELSE instances[k]])

maa_create_instance(t, id) ==
    /\ Idle(t)
    /\ regLock = NoThread
    /\ LET l == Started("maa_create_instance", id) IN
        IF id \in DOMAIN instances
        THEN Return(t, [l EXCEPT !.had = TRUE], "Ok", <<>>, World(t), instances)
        ELSE Return(t, l, "Ok", <<>>, World(t),
                    [k \in DOMAIN instances \cup {id} |->
                        IF k = id THEN InstanceRuntimeDefault ELSE instances[k]])

\* ------------------------------------------------------------------------
\* InstanceRuntime::drop, with MAA_LIBRARY locked and loaded
\* ------------------------------------------------------------------------
DropAgent(w, r) ==
    IF r.agent_client # NULL
    THEN NativeDestroy(Log(w, "maa_agent_client_disconnect", r.agent_client, TRUE),
                       "maa_agent_client_destroy", "agent_client", r.agent_client, TRUE)
    ELSE w

\* variant: the child is forgotten without being killed
DropChildDetached(w, r) == w

DropChild(w, r) ==
    IF r.agent_child # NULL THEN ChildKill(w, r.agent_child, TRUE) ELSE w

DropTasker(w, r) ==
    IF r.tasker # NULL
    THEN NativeDestroy(w, "maa_tasker_destroy", "tasker", r.tasker, TRUE)
    ELSE w

DropController(w, r) ==
    IF r.controller # NULL
    THEN NativeDestroy(w, "maa_controller_destroy", "controller", r.controller, TRUE)
    ELSE w

DropResource(w, r) ==
    IF r.resource # NULL
    THEN NativeDestroy(w, "maa_resource_destroy", "resource", r.resource, TRUE)
    ELSE w

\* variant: the resource is released before the tasker bound to it
InstanceRuntimeDropResourceFirst(w, r) ==
    DropController(DropTasker(DropResource(DropChild(DropAgent(w, r), r), r), r), r)

InstanceRuntimeDrop(w, r) ==
    DropResource(DropController(DropTasker(DropChild(DropAgent(w, r), r), r), r), r)

\* ------------------------------------------------------------------------
\* maa_destroy_instance: remove under the registry lock; the removed runtime
\* is dropped before the registry guard goes out of scope, and the drop
\* locks MAA_LIBRARY
\* ------------------------------------------------------------------------
\* variant: an absent id is an error
maa_destroy_instance_strict(t, id) ==
    /\ Idle(t)
    /\ regLock = NoThread
    /\ LET l == Started("maa_destroy_instance", id) IN
        IF id \in DOMAIN instances
        THEN Step(t, "destroy_drop",
                  [l EXCEPT !.had = TRUE, !.removed = instances[id]],
                  World(t),
                  [k \in DOMAIN instances \ {id} |-> instances[k]],
                  libLock, t)
        ELSE Return(t, l, "Instance not found", <<>>, World(t), instances)

maa_destroy_instance(t, id) ==
    /\ Idle(t)
    /\ regLock = NoThread
    /\ LET l == Started("maa_destroy_instance", id) IN
        IF id \in DOMAIN instances
        THEN Step(t, "destroy_drop",
                  [l EXCEPT !.had = TRUE, !.removed = instances[id]],
                  World(t),
                  [k \in DOMAIN instances \ {id} |-> instances[k]],
                  libLock, t)
        ELSE Return(t, l, "Ok", <<>>, World(t), instances)

\* variant: the drop does not lock MAA_LIBRARY
destroy_instance_drop_unlocked(t) ==
    /\ At(t, "destroy_drop")
    /\ Return(t, loc[t], "Ok", <<>>,
              IF libLoaded THEN InstanceRuntimeDrop(World(t), loc[t].removed)
                           ELSE World(t),
              instances)

destroy_instance_drop(t) ==
    /\ At(t, "destroy_drop")
    /\ libLock = NoThread
    /\ Return(t, loc[t], "Ok", <<>>,
              IF libLoaded THEN InstanceRuntimeDrop(World(t), loc[t].removed)
                           ELSE World(t),
              instances)

\* ------------------------------------------------------------------------
\* Every command that needs the engine starts by locking MAA_LIBRARY and
\* keeps the guard until it returns
\* ------------------------------------------------------------------------
\* variant: the instance is looked up before the library
LockLibraryAfterLookup(t, cmd, id, next) ==
    /\ Idle(t)
    /\ libLock = NoThread
    /\ IF id \notin DOMAIN instances
       THEN Return(t, Started(cmd, id), "Instance not found", <<>>, World(t), instances)
       ELSE IF ~libLoaded
       THEN Return(t, Started(cmd, id), "MaaFramework not initialized", <<>>,
                   World(t), instances)
       ELSE Step(t, next, Started(cmd, id), World(t), instances, t, regLock)

LockLibrary(t, cmd, id, next) ==
    /\ Idle(t)
    /\ libLock = NoThread
    /\ IF ~libLoaded
       THEN Return(t, Started(cmd, id), "MaaFramework not initialized", <<>>,
                   World(t), instances)
       ELSE Step(t, next, Started(cmd, id), World(t), instances, t, regLock)

\* A post call returns the sentinel or a request id of the engine. The
\* engine never issues an id twice; the id it issues is modelled as the
\* lowest one that is in nobody's hands.
Range(seq) == {seq[i] : i \in DOMAIN seq}

UsedIds ==
    UNION {Range(instances[id].task_ids) : id \in DOMAIN instances}
    \cup UNION {Range(loc[u].ids) : u \in Threads}

LowestNotIn(S) ==
    CHOOSE n \in 1..(Cardinality(S) + 1) :
        n \notin S /\ \A m \in 1..(Cardinality(S) + 1) : m \notin S => n <= m

\* the results of a batch of post calls: accepted[i] tells whether the
\* engine accepted the i-th request
RECURSIVE Issue(_, _)
Issue(accepted, used) ==
    IF accepted = <<>> THEN <<>>
    ELSE IF Head(accepted)
         THEN <<LowestNotIn(used)>> \o Issue(Tail(accepted), used \cup {LowestNotIn(used)})
         ELSE <<MAA_INVALID_ID>> \o Issue(Tail(accepted), used)

PostBatches == {Issue(a, UsedIds) : a \in UNION {[1..n -> BOOLEAN] : n \in 0..MaxBatch}}

\* the list a batch command is given: paths of maa_load_resource, task
\* entries of maa_start_tasks
Items == {"x", "y"}

ItemLists ==
    {args \in UNION {[1..n -> Items] : n \in 0..MaxBatch} :
        \A i, j \in DOMAIN args : i # j => args[i] # args[j]}

\* what the engine can answer to a batch of that length
PostBatchesFor(args) == {results \in PostBatches : Len(results) = Len(args)}

PostResults == {Issue(<<a>>, UsedIds)[1] : a \in BOOLEAN}

\* variant: the loop stops at the first request the engine refuses
RECURSIVE AcceptedUntilRefused(_)
AcceptedUntilRefused(results) ==
    IF results = <<>> \/ Head(results) = MAA_INVALID_ID THEN <<>>
    ELSE <<Head(results)>> \o AcceptedUntilRefused(Tail(results))

Accepted(results) == SelectSeq(results, LAMBDA r : r # MAA_INVALID_ID)

RECURSIVE PostEach(_, _, _, _, _, _)
PostEach(w, fn, h, args, results, reg) ==
    IF args = <<>> THEN w
    ELSE PostEach(LogArg(w, fn, h, Head(args), Head(results), reg), fn, h,
                  Tail(args), Tail(results), reg)

\* ------------------------------------------------------------------------
\* maa_connect_controller
\* ------------------------------------------------------------------------
ConnectControllerCreate(w, controller) ==
    Log(Log(NativeAddSink(NativeCreate(w, "maa_controller_create", "controller",
                                       controller, FALSE),
                          "maa_controller_add_sink", "controller", controller, FALSE),
            "maa_controller_set_option", controller, FALSE),
        "maa_controller_post_connection", controller, FALSE)

\* variant: the controller whose connection could not be posted is left alone
ConnectControllerAbandonLeaking(w, controller) ==
    ConnectControllerCreate(w, controller)

\* lines 689-695: the connection could not be posted, the controller is destroyed
ConnectControllerAbandon(w, controller) ==
    NativeDestroy(ConnectControllerCreate(w, controller),
                  "maa_controller_destroy", "controller", controller, FALSE)

\* the characters of the decimal digits, in order
DigitChars == <<"0", "1", "2", "3", "4", "5", "6", "7", "8", "9">>

DigitValue(c) == (CHOOSE n \in DOMAIN DigitChars : DigitChars[n] = c) - 1

\* u64::MAX, 18446744073709551615
U64MaxDigits ==
    <<"1", "8", "4", "4", "6", "7", "4", "4", "0", "7", "3", "7", "0", "9", "5", "5", "1",
      "6", "1", "5">>

\* 18446744073709551616
U64MaxPlusOne == [U64MaxDigits EXCEPT ![Len(U64MaxDigits)] = "6"]

RECURSIVE StripZeros(_)
StripZeros(digits) ==
    IF Len(digits) > 1 /\ digits[1] = "0" THEN StripZeros(Tail(digits)) ELSE digits

\* the number written with these digits is above u64::MAX
Overflows(digits) ==
    LET d == StripZeros(digits) IN
    \/ Len(d) > Len(U64MaxDigits)
    \/ /\ Len(d) = Len(U64MaxDigits)
       /\ \E i \in DOMAIN d :
              /\ DigitValue(d[i]) > DigitValue(U64MaxDigits[i])
              /\ \A j \in 1..(i - 1) : d[j] = U64MaxDigits[j]

\* variant: the value wraps around
ParseU64Wrapping(str) ==
    LET digits == IF str # <<>> /\ str[1] = "+" THEN Tail(str) ELSE str IN
    digits # <<>> /\ \A i \in DOMAIN digits : \E n \in DOMAIN DigitChars : DigitChars[n] = digits[i]

\* str.parse::<u64>() succeeds: an optional plus sign, then one or more
\* decimal digits of a number that fits 64 bits
ParseU64(str) ==
    LET digits == IF str # <<>> /\ str[1] = "+" THEN Tail(str) ELSE str IN
    /\ digits # <<>>
    /\ \A i \in DOMAIN digits : \E n \in DOMAIN DigitChars : DigitChars[n] = digits[i]
    /\ ~Overflows(digits)

\* the bit-mask strings of an Adb configuration
MaskStrings ==
    {<<"7">>, U64MaxDigits, U64MaxPlusOne, <<>>, <<"-", "1">>, <<"0", "x", "7">>}

\* the command called with this configuration
connect_controller(t, id, config, screencap_methods, input_methods) ==
    /\ Idle(t)
    /\ libLock = NoThread
    /\ LET l == [Started("maa_connect_controller", id) EXCEPT
                     !.config = config,
                     !.args = IF config = "Adb"
                              THEN <<screencap_methods, input_methods>> ELSE <<>>]
        IN
        IF ~libLoaded
        THEN Return(t, l, "MaaFramework not initialized", <<>>, World(t), instances)
        ELSE IF config = "Adb" /\ ~ParseU64(screencap_methods)
        THEN Return(t, l, "Invalid screencap_methods", <<>>, World(t), instances)
        ELSE IF config = "Adb" /\ ~ParseU64(input_methods)
        THEN Return(t, l, "Invalid input_methods", <<>>, World(t), instances)
        ELSE IF config = "PlayCover"
        THEN Return(t, l, "PlayCover controller is only supported on macOS", <<>>,
                    World(t), instances)
        ELSE \E controller \in CreateOutcomes(native, "controller") :
            IF controller = NULL
            THEN Return(t, l, "Failed to create controller", <<>>,
                        LogOut(World(t), "maa_controller_create", NULL, NULL, FALSE),
                        instances)
            ELSE \E conn_id \in PostResults :
                IF conn_id = MAA_INVALID_ID
                THEN Return(t, l, "Failed to post connection", <<>>,
                            ConnectControllerAbandon(World(t), controller),
                            instances)
                ELSE Step(t, "connect_store",
                          [l EXCEPT !.controller = controller, !.val = <<conn_id>>],
                          ConnectControllerCreate(World(t), controller),
                          instances, t, regLock)

\* the configurations the host sends in the runs with the other commands:
\* the two masks of an Adb configuration, well-formed or not
AdbMasks == {<<<<"7">>, <<"7">>>>, <<<<"0", "x", "7">>, <<"7">>>>}

maa_connect_controller(t, id) ==
    \E config \in ControllerConfigs, masks \in AdbMasks :
        connect_controller(t, id, config, masks[1], masks[2])

\* lines 697-712: the registry update
ReplaceController(w, old) ==
    IF old # NULL THEN NativeDestroy(w, "maa_controller_destroy", "controller", old, TRUE) ELSE w

\* variant: the old controller is destroyed but the field keeps it
connect_controller_store_stale(t) ==
    /\ At(t, "connect_store")
    /\ regLock = NoThread
    /\ LET id == loc[t].id IN
       IF id \notin DOMAIN instances
       THEN Return(t, loc[t], "Instance not found", <<>>, World(t), instances)
       ELSE Return(t, [loc[t] EXCEPT !.had = TRUE], "Ok", loc[t].val,
                   ReplaceController(World(t), instances[id].controller),
                   IF instances[id].controller # NULL THEN instances
                   ELSE [instances EXCEPT ![id].controller = loc[t].controller])

connect_controller_store(t) ==
    /\ At(t, "connect_store")
    /\ regLock = NoThread
    /\ LET id == loc[t].id IN
       IF id \notin DOMAIN instances
       THEN Return(t, loc[t], "Instance not found", <<>>, World(t), instances)
       ELSE Return(t, [loc[t] EXCEPT !.had = TRUE], "Ok", loc[t].val,
                   ReplaceController(World(t), instances[id].controller),
                   [instances EXCEPT ![id].controller = loc[t].controller])

\* ------------------------------------------------------------------------
\* maa_load_resource
\* ------------------------------------------------------------------------
maa_load_resource(t, id) ==
    LockLibrary(t, "maa_load_resource", id, "load_reg")

LoadResourceCreate(w, res) ==
    NativeAddSink(NativeCreate(w, "maa_resource_create", "resource", res, TRUE),
                  "maa_resource_add_sink", "resource", res, TRUE)

\* variant: the bundles are posted inside the registry block
LoadResourcePostLocked(w, resource, paths, results) ==
    PostEach(w, "maa_resource_post_bundle", resource, paths, results, TRUE)

LoadResourcePost(w, resource, paths, results) ==
    PostEach(w, "maa_resource_post_bundle", resource, paths, results, FALSE)

load_resource_body(t) ==
    /\ At(t, "load_reg")
    /\ regLock = NoThread
    /\ LET id == loc[t].id IN
       IF id \notin DOMAIN instances
       THEN Return(t, loc[t], "Instance not found", <<>>, World(t), instances)
       ELSE IF instances[id].resource # NULL
       THEN \E paths \in ItemLists : \E results \in PostBatchesFor(paths) :
            Return(t, [loc[t] EXCEPT !.had = TRUE, !.args = paths], "Ok",
                   Accepted(results),
                   LoadResourcePost(World(t), instances[id].resource, paths, results),
                   instances)
       ELSE \E res \in CreateOutcomes(native, "resource") :
            IF res = NULL
            THEN Return(t, [loc[t] EXCEPT !.had = TRUE], "Failed to create resource",
                        <<>>, LogOut(World(t), "maa_resource_create", NULL, NULL, TRUE),
                        instances)
            ELSE \E paths \in ItemLists : \E results \in PostBatchesFor(paths) :
                 Return(t, [loc[t] EXCEPT !.had = TRUE, !.args = paths], "Ok",
                        Accepted(results),
                        LoadResourcePost(LoadResourceCreate(World(t), res), res, paths,
                                         results),
                        [instances EXCEPT ![id].resource = res])

\* ------------------------------------------------------------------------
\* maa_destroy_resource
\* ------------------------------------------------------------------------
maa_destroy_resource(t, id) ==
    LockLibrary(t, "maa_destroy_resource", id, "destroy_res_reg")

\* variant: only the resource is destroyed
DestroyResourceOnly(w, r) ==
    IF r.resource # NULL
    THEN NativeDestroy(w, "maa_resource_destroy", "resource", r.resource, TRUE)
    ELSE w

DestroyResource(w, r) ==
    LET w1 == IF r.resource # NULL
              THEN NativeDestroy(w, "maa_resource_destroy", "resource", r.resource, TRUE)
              ELSE w
    IN  IF r.tasker # NULL
        THEN NativeDestroy(w1, "maa_tasker_destroy", "tasker", r.tasker, TRUE)
        ELSE w1

\* variant: the fields of every instance are taken
TakeResourceEverywhere(inst, id) ==
    [k \in DOMAIN inst |-> [inst[k] EXCEPT !.resource = NULL, !.tasker = NULL]]

\* lines 835, 843: instance.resource.take(), instance.tasker.take()
TakeResource(inst, id) ==
    [inst EXCEPT ![id].resource = NULL, ![id].tasker = NULL]

destroy_resource_body(t) ==
    /\ At(t, "destroy_res_reg")
    /\ regLock = NoThread
    /\ LET id == loc[t].id IN
       IF id \notin DOMAIN instances
       THEN Return(t, loc[t], "Instance not found", <<>>, World(t), instances)
       ELSE Return(t, [loc[t] EXCEPT !.had = TRUE], "Ok", <<>>,
                   DestroyResource(World(t), instances[id]),
                   TakeResource(instances, id))

\* ------------------------------------------------------------------------
\* maa_run_task and maa_start_tasks: the registry block that looks the
\* instance up and creates the tasker on first use
\* ------------------------------------------------------------------------
\* variant: the callback is not registered on the new tasker
TaskerCreateNoSink(w, tasker, resource, controller) ==
    NativeBindController(
        NativeBindResource(
            NativeCreate(w, "maa_tasker_create", "tasker", tasker, TRUE),
            "maa_tasker_bind_resource", "tasker", tasker, resource, TRUE),
        "maa_tasker_bind_controller", "tasker", tasker, controller, TRUE)

TaskerCreate(w, tasker, resource, controller) ==
    NativeBindController(
        NativeBindResource(
            NativeAddSink(NativeCreate(w, "maa_tasker_create", "tasker", tasker, TRUE),
                          "maa_tasker_add_sink", "tasker", tasker, TRUE),
            "maa_tasker_bind_resource", "tasker", tasker, resource, TRUE),
        "maa_tasker_bind_controller", "tasker", tasker, controller, TRUE)

\* variant: the block checks the resource only
TaskPreconditionResourceOnly(id) ==
    IF id \notin DOMAIN instances THEN "Instance not found"
    ELSE IF instances[id].resource = NULL THEN "Resource not loaded"
    ELSE ""

\* the error the block returns before any native call, "" when there is none
TaskPrecondition(id) ==
    IF id \notin DOMAIN instances THEN "Instance not found"
    ELSE IF instances[id].resource = NULL THEN "Resource not loaded"
    ELSE IF instances[id].controller = NULL THEN "Controller not connected"
    ELSE ""

\* the taskers the block can end with: the stored one, or what create returns
TaskerOutcomes(id) ==
    IF instances[id].tasker # NULL THEN {instances[id].tasker}
    ELSE CreateOutcomes(native, "tasker")

WithTasker(w, id, tasker) ==
    IF instances[id].tasker # NULL THEN w
    ELSE TaskerCreate(w, tasker, instances[id].resource, instances[id].controller)

\* ------------------------------------------------------------------------
\* maa_run_task
\* ------------------------------------------------------------------------
maa_run_task(t, id) ==
    LockLibrary(t, "maa_run_task", id, "run_reg")

RunTaskPost(w, tasker, task_id) ==
    LogOut(w, "maa_tasker_post_task", tasker, task_id, FALSE)

run_task_body(t) ==
    /\ At(t, "run_reg")
    /\ regLock = NoThread
    /\ LET id == loc[t].id
           l  == [loc[t] EXCEPT !.had = id \in DOMAIN instances]
       IN
       IF TaskPrecondition(id) # ""
       THEN Return(t, l, TaskPrecondition(id), <<>>, World(t), instances)
       ELSE \E tasker \in TaskerOutcomes(id) :
            IF tasker = NULL
            THEN Return(t, l, "Failed to create tasker", <<>>,
                        LogOut(World(t), "maa_tasker_create", NULL, NULL, TRUE), instances)
            ELSE \E inited \in BOOLEAN :
                 LET inst == [instances EXCEPT ![id].tasker = tasker]
                     w1 == LogOut(WithTasker(World(t), id, tasker), "maa_tasker_inited",
                                  tasker, IF inited THEN 1 ELSE 0, FALSE)
                 IN
                 IF ~inited
                 THEN Return(t, l, "Tasker not properly initialized", <<>>, w1, inst)
                 ELSE \E task_id \in PostResults :
                      IF task_id = MAA_INVALID_ID
                      THEN Return(t, l, "Failed to post task", <<>>,
                                  RunTaskPost(w1, tasker, task_id), inst)
                      ELSE /\ Len(instances[id].task_ids) < MaxTaskIds
                           /\ Step(t, "run_store",
                                   [l EXCEPT !.tasker = tasker, !.ids = <<task_id>>],
                                   RunTaskPost(w1, tasker, task_id), inst, libLock, regLock)

\* lines 922-930: cache the task id
RunTaskCache(task_ids, ids) == task_ids \o ids

run_task_store(t) ==
    /\ At(t, "run_store")
    /\ regLock = NoThread
    /\ LET id == loc[t].id IN
       Return(t, loc[t], "Ok", loc[t].ids, World(t),
              IF id \in DOMAIN instances
              THEN [instances EXCEPT ![id].task_ids = RunTaskCache(@, loc[t].ids)]
              ELSE instances)

\* ------------------------------------------------------------------------
\* maa_start_tasks
\* ------------------------------------------------------------------------
maa_start_tasks(t, id) ==
    LockLibrary(t, "maa_start_tasks", id, "start_reg")

\* variant: the answer of the initialized query is logged and not acted on
StartTasksPostUnchecked(t, l, w, inst, tasker) ==
    \E inited \in BOOLEAN :
        LET w1 == LogOut(w, "maa_tasker_inited", tasker, IF inited THEN 1 ELSE 0, FALSE) IN
        \E tasks \in ItemLists : \E results \in PostBatchesFor(tasks) :
            Step(t, "start_store",
                 [l EXCEPT !.tasker = tasker, !.args = tasks, !.ids = Accepted(results)],
                 PostEach(w1, "maa_tasker_post_task", tasker, tasks, results, FALSE),
                 inst, libLock, regLock)

\* lines 1402-1424: the initialized check and the posts, then on to the cache
StartTasksPost(t, l, w, inst, tasker) ==
    \E inited \in BOOLEAN :
        LET w1 == LogOut(w, "maa_tasker_inited", tasker, IF inited THEN 1 ELSE 0, FALSE) IN
        IF ~inited
        THEN Return(t, l, "Tasker not properly initialized", <<>>, w1, inst)
        ELSE \E tasks \in ItemLists : \E results \in PostBatchesFor(tasks) :
             Step(t, "start_store",
                  [l EXCEPT !.tasker = tasker, !.args = tasks, !.ids = Accepted(results)],
                  PostEach(w1, "maa_tasker_post_task", tasker, tasks, results, FALSE),
                  inst, libLock, regLock)

\* variant: the agent client takes the resource over and the bridge's handle
\* to it is destroyed
AgentClientCreateConsuming(w, agent_client, resource) ==
    NativeDestroy(
        NativeCreate(w, "maa_agent_client_create_v2", "agent_client", agent_client, FALSE),
        "maa_resource_destroy", "resource", resource, FALSE)

\* lines 1198-1227: the agent client, bound to the resource, and its identifier
AgentClientCreate(w, agent_client, resource) ==
    NativeBindResource(
        NativeCreate(w, "maa_agent_client_create_v2", "agent_client", agent_client, FALSE),
        "maa_agent_client_bind_resource", "agent_client", agent_client, resource, FALSE)

\* AgentConfig: child_args and timeout are optional
None == [some |-> FALSE, ms |-> 0]

Timeouts == {None, [some |-> TRUE, ms |-> 5000]}

ChildArgs == {[some |-> FALSE, args |-> <<>>], [some |-> TRUE, args |-> <<"-u">>]}

\* the identifier the agent client hands out for the rendezvous
SocketId == "socket_id"

\* variant: the identifier is the first argument
AgentArgsIdentifierFirst(child_args, socket_id) ==
    <<socket_id>> \o (IF child_args.some THEN child_args.args ELSE <<>>)

\* lines 1232-1233: child_args.clone().unwrap_or_default(), then push(socket_id)
AgentArgs(child_args, socket_id) ==
    Append(IF child_args.some THEN child_args.args ELSE <<>>, socket_id)

\* variant: an absent timeout does not wait
ConnectTimeoutZero(timeout) == IF timeout.some THEN timeout.ms ELSE 0

\* line 1371: agent.timeout.unwrap_or(-1)
ConnectTimeout(timeout) == IF timeout.some THEN timeout.ms ELSE -1

\* lines 1252-1274, 1370-1378: spawn, set the timeout, enter the connect call
StartAgent(t, l, w, inst, tasker, resource) ==
    \E agent_client \in CreateOutcomes(w.native, "agent_client") :
        IF agent_client = NULL
        THEN Return(t, l, "Failed to create agent client", <<>>,
                    LogOut(w, "maa_agent_client_create_v2", NULL, NULL, FALSE), inst)
        ELSE \E identifier \in {"no buffer", "no identifier", "ok"} :
             LET w1 == AgentClientCreate(w, agent_client, resource) IN
             IF identifier = "no buffer"
             THEN Return(t, l, "Failed to create string buffer", <<>>,
                         NativeDestroy(w1, "maa_agent_client_destroy", "agent_client", agent_client, FALSE),
                         inst)
             ELSE IF identifier = "no identifier"
             THEN Return(t, l, "Failed to get agent identifier", <<>>,
                         NativeDestroy(
                             LogOut(w1, "maa_agent_client_identifier", agent_client, 0, FALSE),
                             "maa_agent_client_destroy", "agent_client", agent_client, FALSE),
                         inst)
             ELSE \E child \in SpawnOutcomes(procs) : \E child_args \in ChildArgs :
                  LET args == AgentArgs(child_args, SocketId)
                      w2 == LogOut(w1, "maa_agent_client_identifier", agent_client, 1, FALSE)
                      w3 == LogArg(w2, "spawn", child, args[Len(args)], child, FALSE)
                  IN
                  IF child = NULL
                  THEN Return(t, l, "Failed to start agent process", <<>>, w3, inst)
                  ELSE \E timeout \in Timeouts :
                       Step(t, "start_connect",
                            [l EXCEPT !.tasker = tasker, !.agent_client = agent_client,
                                      !.child = child, !.timeout = timeout],
                            Log(LogOut([w3 EXCEPT !.procs[child] =
                                           [@ EXCEPT !.state = "running", !.owner = l.id,
                                                     !.connect = "waiting"]],
                                       "maa_agent_client_set_timeout", agent_client,
                                       ConnectTimeout(timeout), FALSE),
                                "maa_agent_client_connect", agent_client, FALSE),
                            inst, libLock, regLock)

start_tasks_body(t) ==
    /\ At(t, "start_reg")
    /\ regLock = NoThread
    /\ LET id == loc[t].id
           l  == [loc[t] EXCEPT !.had = id \in DOMAIN instances]
       IN
       IF TaskPrecondition(id) # ""
       THEN Return(t, l, TaskPrecondition(id), <<>>, World(t), instances)
       ELSE \E tasker \in TaskerOutcomes(id) :
            IF tasker = NULL
            THEN Return(t, l, "Failed to create tasker", <<>>,
                        LogOut(World(t), "maa_tasker_create", NULL, NULL, TRUE), instances)
            ELSE \E agent_config \in BOOLEAN :
                 LET inst == [instances EXCEPT ![id].tasker = tasker]
                     w1 == WithTasker(World(t), id, tasker)
                     l1 == [l EXCEPT !.agent = agent_config,
                                     !.resource = instances[id].resource]
                 IN
                 IF agent_config
                 THEN StartAgent(t, l1, w1, inst, tasker, instances[id].resource)
                 ELSE StartTasksPost(t, l1, w1, inst, tasker)

\* line 1378: maa_agent_client_connect returns
start_tasks_connected(t) ==
    /\ At(t, "start_connect")
    /\ \E connected \in BOOLEAN :
        Step(t, IF connected THEN "start_agent_store" ELSE "start_connect_failed",
             loc[t],
             LogOut([World(t) EXCEPT !.procs[loc[t].child].connect =
                                        IF connected THEN "connected" ELSE "failed"],
                    "maa_agent_client_connect returned", loc[t].agent_client,
                    IF connected THEN 1 ELSE 0, FALSE),
             instances, libLock, regLock)

\* lines 1379-1388
start_tasks_connect_failed(t) ==
    /\ At(t, "start_connect_failed")
    /\ regLock = NoThread
    /\ LET id == loc[t].id IN
       Return(t, loc[t], "Failed to connect to agent", <<>>,
              NativeDestroy(World(t), "maa_agent_client_destroy", "agent_client",
                            loc[t].agent_client, TRUE),
              IF id \in DOMAIN instances
              THEN [instances EXCEPT ![id].agent_child = loc[t].child]
              ELSE instances)

\* lines 1392-1399, then the posts
start_tasks_agent_store(t) ==
    /\ At(t, "start_agent_store")
    /\ regLock = NoThread
    /\ LET id == loc[t].id IN
       StartTasksPost(t, loc[t], World(t),
                      IF id \in DOMAIN instances
                      THEN [instances EXCEPT ![id].agent_client = loc[t].agent_client,
                                             ![id].agent_child = loc[t].child]
                      ELSE instances,
                      loc[t].tasker)

\* lines 1426-1434: cache the task ids
\* variant: the ids are cached only when nothing is cached yet
StartTasksCacheIfEmpty(task_ids, ids) == IF task_ids = <<>> THEN ids ELSE task_ids

StartTasksCache(task_ids, ids) == ids

start_tasks_store(t) ==
    /\ At(t, "start_store")
    /\ regLock = NoThread
    /\ LET id == loc[t].id IN
       Return(t, loc[t], "Ok", loc[t].ids, World(t),
              IF id \in DOMAIN instances
              THEN [instances EXCEPT ![id].task_ids = StartTasksCache(@, loc[t].ids)]
              ELSE instances)

\* ------------------------------------------------------------------------
\* maa_stop_task
\* ------------------------------------------------------------------------
maa_stop_task(t, id) ==
    LockLibrary(t, "maa_stop_task", id, "stop_reg")

\* variant: the cached task ids are not cleared
stop_task_body_keeping_ids(t) ==
    /\ At(t, "stop_reg")
    /\ regLock = NoThread
    /\ LET id == loc[t].id IN
       IF id \notin DOMAIN instances
       THEN Return(t, loc[t], "Instance not found", <<>>, World(t), instances)
       ELSE LET l == [loc[t] EXCEPT !.had = TRUE] IN
            IF instances[id].tasker = NULL
            THEN Return(t, l, "Tasker not created", <<>>, World(t), instances)
            ELSE Return(t, l, "Ok", <<>>,
                        Log(World(t), "maa_tasker_post_stop", instances[id].tasker, FALSE),
                        instances)

stop_task_body(t) ==
    /\ At(t, "stop_reg")
    /\ regLock = NoThread
    /\ LET id == loc[t].id IN
       IF id \notin DOMAIN instances
       THEN Return(t, loc[t], "Instance not found", <<>>, World(t), instances)
       ELSE LET inst == [instances EXCEPT ![id].task_ids = <<>>]
                l == [loc[t] EXCEPT !.had = TRUE]
            IN
            IF instances[id].tasker = NULL
            THEN Return(t, l, "Tasker not created", <<>>, World(t), inst)
            ELSE Return(t, l, "Ok", <<>>,
                        Log(World(t), "maa_tasker_post_stop", instances[id].tasker, FALSE),
                        inst)

\* ------------------------------------------------------------------------
\* maa_stop_agent
\* ------------------------------------------------------------------------
maa_stop_agent(t, id) ==
    LockLibrary(t, "maa_stop_agent", id, "stop_agent_reg")

StopAgent(w, r) ==
    LET w1 == IF r.agent_client # NULL
              THEN NativeDestroy(
                       Log(w, "maa_agent_client_disconnect", r.agent_client, TRUE),
                       "maa_agent_client_destroy", "agent_client", r.agent_client, TRUE)
              ELSE w
    IN  IF r.agent_child # NULL
        THEN ChildWait(ChildKill(w1, r.agent_child, TRUE), r.agent_child, TRUE)
        ELSE w1

\* variant: the fields are read without take(), so they stay populated
stop_agent_body_keeping(t) ==
    /\ At(t, "stop_agent_reg")
    /\ regLock = NoThread
    /\ LET id == loc[t].id IN
       IF id \notin DOMAIN instances
       THEN Return(t, loc[t], "Instance not found", <<>>, World(t), instances)
       ELSE Return(t, [loc[t] EXCEPT !.had = TRUE], "Ok", <<>>,
                   StopAgent(World(t), instances[id]), instances)

stop_agent_body(t) ==
    /\ At(t, "stop_agent_reg")
    /\ regLock = NoThread
    /\ LET id == loc[t].id IN
       IF id \notin DOMAIN instances
       THEN Return(t, loc[t], "Instance not found", <<>>, World(t), instances)
       ELSE Return(t, [loc[t] EXCEPT !.had = TRUE], "Ok", <<>>,
                   StopAgent(World(t), instances[id]),
                   [instances EXCEPT ![id].agent_client = NULL, ![id].agent_child = NULL])

\* ------------------------------------------------------------------------
\* Queries. A native query answers with a MaaBool, a byte of which three
\* values are kept here; Flag is the bridge's "!= 0".
\* ------------------------------------------------------------------------
Answers == {0, 1, 255}

Flag(answer) == answer # 0

\* maa_get_connection_status: the registry guard stays in scope to the end
maa_get_connection_status(t, id) ==
    LockLibrary(t, "maa_get_connection_status", id, "connection_reg")

get_connection_status_body(t) ==
    /\ At(t, "connection_reg")
    /\ regLock = NoThread
    /\ LET id == loc[t].id
           l  == [loc[t] EXCEPT !.had = id \in DOMAIN instances]
       IN
       IF id \notin DOMAIN instances
       THEN Return(t, l, "Instance not found", <<>>, World(t), instances)
       ELSE IF instances[id].controller = NULL
       THEN Return(t, l, "Ok", <<"Disconnected">>, World(t), instances)
       ELSE \E connected \in Answers :
            Return(t, l, "Ok",
                   <<IF Flag(connected) THEN "Connected" ELSE "Disconnected">>,
                   LogOut(World(t), "maa_controller_connected",
                          instances[id].controller, connected, TRUE),
                   instances)

\* maa_is_resource_loaded
maa_is_resource_loaded(t, id) ==
    LockLibrary(t, "maa_is_resource_loaded", id, "loaded_reg")

is_resource_loaded_body(t) ==
    /\ At(t, "loaded_reg")
    /\ regLock = NoThread
    /\ LET id == loc[t].id
           l  == [loc[t] EXCEPT !.had = id \in DOMAIN instances]
       IN
       IF id \notin DOMAIN instances
       THEN Return(t, l, "Instance not found", <<>>, World(t), instances)
       ELSE IF instances[id].resource = NULL
       THEN Return(t, l, "Ok", <<FALSE>>, World(t), instances)
       ELSE \E loaded \in Answers :
            Return(t, l, "Ok", <<Flag(loaded)>>,
                   LogOut(World(t), "maa_resource_loaded",
                          instances[id].resource, loaded, TRUE),
                   instances)

\* maa_get_task_status, lines 954-961: the match on the native status
\* variant: only the engine's failed code is Failed, anything else unknown
\* counts as still pending
TaskStatusOfFailedCodeOnly(status) ==
    CASE status = MAA_STATUS_PENDING -> "Pending"
      [] status = MAA_STATUS_RUNNING -> "Running"
      [] status = MAA_STATUS_SUCCEEDED -> "Succeeded"
      [] status = 4000 -> "Failed"
      [] OTHER -> "Pending"

TaskStatusOf(status) ==
    CASE status = MAA_STATUS_PENDING -> "Pending"
      [] status = MAA_STATUS_RUNNING -> "Running"
      [] status = MAA_STATUS_SUCCEEDED -> "Succeeded"
      [] OTHER -> "Failed"

maa_get_task_status(t, id) ==
    LockLibrary(t, "maa_get_task_status", id, "status_reg")

get_task_status_body(t) ==
    /\ At(t, "status_reg")
    /\ regLock = NoThread
    /\ LET id == loc[t].id
           l  == [loc[t] EXCEPT !.had = id \in DOMAIN instances]
       IN
       IF id \notin DOMAIN instances
       THEN Return(t, l, "Instance not found", <<>>, World(t), instances)
       ELSE IF instances[id].tasker = NULL
       THEN Return(t, l, "Tasker not created", <<>>, World(t), instances)
       ELSE \E status \in StatusCodes :
            Return(t, l, "Ok", <<TaskStatusOf(status)>>,
                   LogOut(World(t), "maa_tasker_status", instances[id].tasker,
                          status, FALSE),
                   instances)

\* maa_override_pipeline
maa_override_pipeline(t, id) ==
    LockLibrary(t, "maa_override_pipeline", id, "override_reg")

override_pipeline_body(t) ==
    /\ At(t, "override_reg")
    /\ regLock = NoThread
    /\ LET id == loc[t].id
           l  == [loc[t] EXCEPT !.had = id \in DOMAIN instances]
       IN
       IF id \notin DOMAIN instances
       THEN Return(t, l, "Instance not found", <<>>, World(t), instances)
       ELSE IF instances[id].tasker = NULL
       THEN Return(t, l, "Tasker not created", <<>>, World(t), instances)
       ELSE \E success \in Answers :
            Return(t, l, "Ok", <<Flag(success)>>,
                   LogOut(World(t), "maa_tasker_override_pipeline",
                          instances[id].tasker, success, FALSE),
                   instances)

\* maa_is_running
maa_is_running(t, id) ==
    LockLibrary(t, "maa_is_running", id, "running_reg")

\* variant: an instance without a tasker is an error, as in maa_get_task_status
is_running_body_strict(t) ==
    /\ At(t, "running_reg")
    /\ regLock = NoThread
    /\ LET id == loc[t].id
           l  == [loc[t] EXCEPT !.had = id \in DOMAIN instances]
       IN
       IF id \notin DOMAIN instances
       THEN Return(t, l, "Instance not found", <<>>, World(t), instances)
       ELSE IF instances[id].tasker = NULL
       THEN Return(t, l, "Tasker not created", <<>>, World(t), instances)
       ELSE \E running \in Answers :
            Return(t, l, "Ok", <<Flag(running)>>,
                   LogOut(World(t), "maa_tasker_running", instances[id].tasker,
                          running, FALSE),
                   instances)

is_running_body(t) ==
    /\ At(t, "running_reg")
    /\ regLock = NoThread
    /\ LET id == loc[t].id
           l  == [loc[t] EXCEPT !.had = id \in DOMAIN instances]
       IN
       IF id \notin DOMAIN instances
       THEN Return(t, l, "Instance not found", <<>>, World(t), instances)
       ELSE IF instances[id].tasker = NULL
       THEN Return(t, l, "Ok", <<FALSE>>, World(t), instances)
       ELSE \E running \in Answers :
            Return(t, l, "Ok", <<Flag(running)>>,
                   LogOut(World(t), "maa_tasker_running", instances[id].tasker,
                          running, FALSE),
                   instances)

\* maa_post_screencap
maa_post_screencap(t, id) ==
    LockLibrary(t, "maa_post_screencap", id, "screencap_reg")

post_screencap_body(t) ==
    /\ At(t, "screencap_reg")
    /\ regLock = NoThread
    /\ LET id == loc[t].id
           l  == [loc[t] EXCEPT !.had = id \in DOMAIN instances]
       IN
       IF id \notin DOMAIN instances
       THEN Return(t, l, "Instance not found", <<>>, World(t), instances)
       ELSE IF instances[id].controller = NULL
       THEN Return(t, l, "Controller not connected", <<>>, World(t), instances)
       ELSE \E screencap_id \in PostResults :
            LET w == LogOut(World(t), "maa_controller_post_screencap",
                            instances[id].controller, screencap_id, FALSE)
            IN
            IF screencap_id = MAA_INVALID_ID
            THEN Return(t, l, "Failed to post screencap", <<>>, w, instances)
            ELSE Return(t, l, "Ok", <<screencap_id>>, w, instances)

\* maa_get_cached_image: the image buffer lives inside the command; once
\* created it is destroyed on every way out (ImageBufferGuard)
CachedImageOutcomes ==
    {"Failed to create image buffer", "Failed to get cached image",
     "No image data available", "Ok"}

CachedImageCalls(w, controller, outcome) ==
    LET w1 == LogOut(w, "maa_image_buffer_create", NULL,
                     IF outcome = "Failed to create image buffer" THEN 0 ELSE 1, FALSE)
        w2 == LogOut(w1, "maa_controller_cached_image", controller,
                     IF outcome = "Failed to get cached image" THEN 0 ELSE 1, FALSE)
        w3 == LogOut(w2, "maa_image_buffer_get_encoded", NULL,
                     IF outcome = "No image data available" THEN 0 ELSE 1, FALSE)
    IN  IF outcome = "Failed to create image buffer" THEN w1
        ELSE IF outcome = "Failed to get cached image"
        THEN Log(w2, "maa_image_buffer_destroy", NULL, FALSE)
        ELSE Log(w3, "maa_image_buffer_destroy", NULL, FALSE)

maa_get_cached_image(t, id) ==
    LockLibrary(t, "maa_get_cached_image", id, "image_reg")

get_cached_image_body(t) ==
    /\ At(t, "image_reg")
    /\ regLock = NoThread
    /\ LET id == loc[t].id
           l  == [loc[t] EXCEPT !.had = id \in DOMAIN instances]
       IN
       IF id \notin DOMAIN instances
       THEN Return(t, l, "Instance not found", <<>>, World(t), instances)
       ELSE IF instances[id].controller = NULL
       THEN Return(t, l, "Controller not connected", <<>>, World(t), instances)
       ELSE \E outcome \in CachedImageOutcomes :
            Return(t, l, outcome,
                   IF outcome = "Ok" THEN <<"data:image/png;base64">> ELSE <<>>,
                   CachedImageCalls(World(t), instances[id].controller, outcome),
                   instances)

\* maa_get_instance_state: every populated handle is queried with the
\* registry guard in scope; an absent one counts as false
QueryIfPresent(w, fn, h, answer) ==
    IF h = NULL THEN w ELSE LogOut(w, fn, h, answer, TRUE)

AnswersFor(h) == IF h = NULL THEN {0} ELSE Answers

InstanceStateCalls(w, r, connected, loaded, inited, running) ==
    QueryIfPresent(
        QueryIfPresent(
            QueryIfPresent(
                QueryIfPresent(w, "maa_controller_connected", r.controller, connected),
                "maa_resource_loaded", r.resource, loaded),
            "maa_tasker_inited", r.tasker, inited),
        "maa_tasker_running", r.tasker, running)

maa_get_instance_state(t, id) ==
    LockLibrary(t, "maa_get_instance_state", id, "state_reg")

\* variant: the cached task ids are moved out of the instance, not cloned
get_instance_state_body_taking_ids(t) ==
    /\ At(t, "state_reg")
    /\ regLock = NoThread
    /\ LET id == loc[t].id
           l  == [loc[t] EXCEPT !.had = id \in DOMAIN instances]
       IN
       IF id \notin DOMAIN instances
       THEN Return(t, l, "Instance not found", <<>>, World(t), instances)
       ELSE LET r == instances[id] IN
            \E connected \in AnswersFor(r.controller), loaded \in AnswersFor(r.resource),
               inited \in AnswersFor(r.tasker), running \in AnswersFor(r.tasker) :
                Return(t, l, "Ok",
                       <<Flag(connected), Flag(loaded), Flag(inited), Flag(running),
                         r.task_ids>>,
                       InstanceStateCalls(World(t), r, connected, loaded, inited, running),
                       [instances EXCEPT ![id].task_ids = <<>>])

get_instance_state_body(t) ==
    /\ At(t, "state_reg")
    /\ regLock = NoThread
    /\ LET id == loc[t].id
           l  == [loc[t] EXCEPT !.had = id \in DOMAIN instances]
       IN
       IF id \notin DOMAIN instances
       THEN Return(t, l, "Instance not found", <<>>, World(t), instances)
       ELSE LET r == instances[id] IN
            \E connected \in AnswersFor(r.controller), loaded \in AnswersFor(r.resource),
               inited \in AnswersFor(r.tasker), running \in AnswersFor(r.tasker) :
                Return(t, l, "Ok",
                       <<Flag(connected), Flag(loaded), Flag(inited), Flag(running),
                         r.task_ids>>,
                       InstanceStateCalls(World(t), r, connected, loaded, inited, running),
                       instances)

\* maa_get_all_states takes no instance id. It locks MAA_LIBRARY whether or
\* not the library is loaded, then the registry; without the library the
\* instance states are empty, with it every instance of the registry is
\* queried as in maa_get_instance_state, in the map's iteration order. It
\* returns them with clones of the two cached lists.
maa_get_all_states(t) ==
    /\ Idle(t)
    /\ libLock = NoThread
    /\ Step(t, "all_states_reg", Started("maa_get_all_states", ""), World(t),
            instances, t, regLock)

Orders(S) ==
    {order \in [1..Cardinality(S) -> S] :
        \A i, j \in 1..Cardinality(S) : i # j => order[i] # order[j]}

AllStatesAnswers ==
    {ans \in [DOMAIN instances ->
                [connected : Answers, loaded : Answers, inited : Answers, running : Answers]] :
        \A id \in DOMAIN instances :
            /\ ans[id].connected \in AnswersFor(instances[id].controller)
            /\ ans[id].loaded \in AnswersFor(instances[id].resource)
            /\ ans[id].inited \in AnswersFor(instances[id].tasker)
            /\ ans[id].running \in AnswersFor(instances[id].tasker)}

RECURSIVE AllStatesCalls(_, _, _)
AllStatesCalls(w, order, ans) ==
    IF order = <<>> THEN w
    ELSE LET id == Head(order) IN
         AllStatesCalls(
             InstanceStateCalls(w, instances[id], ans[id].connected, ans[id].loaded,
                                ans[id].inited, ans[id].running),
             Tail(order), ans)

get_all_states_body(t) ==
    /\ At(t, "all_states_reg")
    /\ regLock = NoThread
    /\ IF ~libLoaded
       THEN Return(t, loc[t], "Ok",
                   <<<<>>, cached_adb_devices, cached_win32_windows>>,
                   World(t), instances)
       ELSE \E order \in Orders(DOMAIN instances), ans \in AllStatesAnswers :
            Return(t, loc[t], "Ok",
                   <<[id \in DOMAIN instances |->
                        <<Flag(ans[id].connected), Flag(ans[id].loaded),
                          Flag(ans[id].inited), Flag(ans[id].running),
                          instances[id].task_ids>>],
                     cached_adb_devices, cached_win32_windows>>,
                   AllStatesCalls(World(t), order, ans), instances)

\* A query the host starts on thread t for the instance id
Query(t, id) ==
    \/ maa_get_connection_status(t, id)
    \/ maa_is_resource_loaded(t, id)
    \/ maa_get_task_status(t, id)
    \/ maa_override_pipeline(t, id)
    \/ maa_is_running(t, id)
    \/ maa_post_screencap(t, id)
    \/ maa_get_cached_image(t, id)
    \/ maa_get_instance_state(t, id)

\* The next step of the query thread t is running
QueryContinue(t) ==
    \/ get_connection_status_body(t)
    \/ is_resource_loaded_body(t)
    \/ get_task_status_body(t)
    \/ override_pipeline_body(t)
    \/ is_running_body(t)
    \/ post_screencap_body(t)
    \/ get_cached_image_body(t)
    \/ get_instance_state_body(t)
    \/ get_all_states_body(t)

\* ------------------------------------------------------------------------
\* Discovery. The toolkit fills a list whose entries the bridge reads one by
\* one; an entry can be a null pointer. A device or window is its name.
\* ------------------------------------------------------------------------
Devices == {"d1", "d2"}

NullEntry == "null"

RawLists == UNION {[1..n -> Devices \cup {NullEntry}] : n \in 0..MaxDevices}

\* a step of a discovery command: as Step, with the two caches given
StepCache(t, newpc, l, w, adb, win32) ==
    /\ pc' = [pc EXCEPT ![t] = newpc]
    /\ loc' = [loc EXCEPT ![t] = [l EXCEPT !.calls = w.calls]]
    /\ libLock' = IF newpc = "done" /\ libLock = t THEN NoThread ELSE libLock
    /\ cached_adb_devices' = adb
    /\ cached_win32_windows' = win32
    /\ UNCHANGED <<libLoaded, regLock, instances, native, procs, agent_log>>

\* the list is read entry by entry, a null entry is skipped
RECURSIVE ListEntries(_, _, _)
ListEntries(w, fn, raw) ==
    IF raw = <<>> THEN w
    ELSE ListEntries(LogArg(w, fn, NULL, Head(raw),
                            IF Head(raw) = NullEntry THEN 0 ELSE 1, FALSE),
                     fn, Tail(raw))

NonNull(raw) == SelectSeq(raw, LAMBDA e : e # NullEntry)

\* lines 327-391: the list is created, filled, read and destroyed
AdbDeviceFind(w, found, raw) ==
    Log(ListEntries(
            LogOut(LogOut(LogOut(w, "maa_toolkit_adb_device_list_create", NULL, 1, FALSE),
                          "maa_toolkit_adb_device_find", NULL, found, FALSE),
                   "maa_toolkit_adb_device_list_size", NULL, Len(raw), FALSE),
            "maa_toolkit_adb_device_list_at", raw),
        "maa_toolkit_adb_device_list_destroy", NULL, FALSE)

maa_find_adb_devices(t) ==
    /\ Idle(t)
    /\ libLock = NoThread
    /\ LET l == Started("maa_find_adb_devices", "") IN
       IF ~libLoaded
       THEN Return(t, l, "MaaFramework not initialized", <<>>, World(t), instances)
       ELSE \/ Return(t, l, "Failed to create device list", <<>>,
                      LogOut(World(t), "maa_toolkit_adb_device_list_create", NULL, NULL,
                             FALSE),
                      instances)
            \/ \E found \in Answers, raw \in RawLists :
                 Step(t, "adb_cache", [l EXCEPT !.args = NonNull(raw)],
                      AdbDeviceFind(World(t), found, raw), instances, t, regLock)

\* variant: a search that finds nothing leaves the cached list alone
find_adb_devices_cache_nonempty(t) ==
    /\ At(t, "adb_cache")
    /\ StepCache(t, "done", [loc[t] EXCEPT !.ret = "Ok", !.val = loc[t].args], World(t),
                 IF loc[t].args = <<>> THEN cached_adb_devices ELSE loc[t].args,
                 cached_win32_windows)

\* lines 396-402: the result is cached and returned
find_adb_devices_cache(t) ==
    /\ At(t, "adb_cache")
    /\ StepCache(t, "done", [loc[t] EXCEPT !.ret = "Ok", !.val = loc[t].args], World(t),
                 loc[t].args, cached_win32_windows)

\* A window has a class name and a window name. A filter is absent, does not
\* compile (and is then dropped, 461-462), or is a pattern that matches one
\* name.
Windows == {"w1", "w2"}

ClassName(window) == IF window = "w1" THEN "c1" ELSE "c2"

WindowName(window) == IF window = "w1" THEN "n1" ELSE "n2"

RawWindowLists == UNION {[1..n -> Windows \cup {NullEntry}] : n \in 0..MaxDevices}

ClassFilters == {"none", "invalid", "c1"}

WindowFilters == {"none", "n2"}

IsMatch(re, name) == re \in {"none", "invalid"} \/ re = name

\* lines 464-500
FilterWindows(raw, class_regex, window_regex) ==
    SelectSeq(raw, LAMBDA e : /\ e # NullEntry
                              /\ IsMatch(class_regex, ClassName(e))
                              /\ IsMatch(window_regex, WindowName(e)))

\* lines 428-501: when the search reports nothing the list is not read
DesktopWindowFind(w, found, raw) ==
    LET w1 == LogOut(LogOut(w, "maa_toolkit_desktop_window_list_create", NULL, 1, FALSE),
                     "maa_toolkit_desktop_window_find_all", NULL, found, FALSE)
    IN  Log(IF found = 0 THEN w1
            ELSE ListEntries(LogOut(w1, "maa_toolkit_desktop_window_list_size", NULL,
                                    Len(raw), FALSE),
                             "maa_toolkit_desktop_window_list_at", raw),
            "maa_toolkit_desktop_window_list_destroy", NULL, FALSE)

maa_find_win32_windows(t) ==
    /\ Idle(t)
    /\ libLock = NoThread
    /\ LET l == Started("maa_find_win32_windows", "") IN
       IF ~libLoaded
       THEN Return(t, l, "MaaFramework not initialized", <<>>, World(t), instances)
       ELSE \/ Return(t, l, "Failed to create window list", <<>>,
                      LogOut(World(t), "maa_toolkit_desktop_window_list_create", NULL,
                             NULL, FALSE),
                      instances)
            \/ \E found \in Answers, raw \in RawWindowLists,
                  class_regex \in ClassFilters, window_regex \in WindowFilters :
                 Step(t, "win32_cache",
                      [l EXCEPT !.args = IF found = 0 THEN <<>>
                                         ELSE FilterWindows(raw, class_regex, window_regex)],
                      DesktopWindowFind(World(t), found, raw), instances, t, regLock)

\* lines 504-510
find_win32_windows_cache(t) ==
    /\ At(t, "win32_cache")
    /\ StepCache(t, "done", [loc[t] EXCEPT !.ret = "Ok", !.val = loc[t].args], World(t),
                 cached_adb_devices, loc[t].args)

\* the cached lists are cloned under their own locks
maa_get_cached_adb_devices(t) ==
    /\ Idle(t)
    /\ Return(t, Started("maa_get_cached_adb_devices", ""), "Ok", cached_adb_devices,
              World(t), instances)

maa_get_cached_win32_windows(t) ==
    /\ Idle(t)
    /\ Return(t, Started("maa_get_cached_win32_windows", ""), "Ok", cached_win32_windows,
              World(t), instances)

\* The host searches for devices and windows and reads the cached lists
Discovery(t) ==
    \/ maa_find_adb_devices(t)
    \/ find_adb_devices_cache(t)
    \/ maa_find_win32_windows(t)
    \/ find_win32_windows_cache(t)
    \/ maa_get_cached_adb_devices(t)
    \/ maa_get_cached_win32_windows(t)

\* A command the host starts on thread t for the instance id
Command(t, id) ==
    \/ maa_create_instance(t, id)
    \/ maa_destroy_instance(t, id)
    \/ maa_connect_controller(t, id)
    \/ maa_load_resource(t, id)
    \/ maa_destroy_resource(t, id)
    \/ maa_run_task(t, id)
    \/ maa_start_tasks(t, id)
    \/ maa_stop_task(t, id)
    \/ maa_stop_agent(t, id)

\* The next step of the command thread t is running
Continue(t) ==
    \/ Finish(t)
    \/ destroy_instance_drop(t)
    \/ connect_controller_store(t)
    \/ load_resource_body(t)
    \/ destroy_resource_body(t)
    \/ run_task_body(t)
    \/ run_task_store(t)
    \/ start_tasks_body(t)
    \/ start_tasks_connected(t)
    \/ start_tasks_connect_failed(t)
    \/ start_tasks_agent_store(t)
    \/ start_tasks_store(t)
    \/ stop_task_body(t)
    \/ stop_agent_body(t)

\* The host drives one instance from two threads, with commands and queries
Next ==
    \E t \in Threads :
        \/ maa_init(t)
        \/ Command(t, "a")
        \/ Continue(t)
        \/ Query(t, "a")
        \/ maa_get_all_states(t)
        \/ QueryContinue(t)

Spec == Init /\ [][Next]_vars

\* The host drives two instances from two threads, with the commands that
\* write the registry
NextInstances ==
    \E t \in Threads :
        \/ maa_init(t)
        \/ \E id \in InstanceIds : Command(t, id)
        \/ Continue(t)

SpecInstances == Init /\ [][NextInstances]_vars

\* ------------------------------------------------------------------------
\* The log readers of an agent process: maa_start_tasks takes the two pipes
\* of the child and spawns one detached thread per pipe
\* ------------------------------------------------------------------------
LF == "LF"
CR == "CR"

\* what one read_until(b'\n') can put into the buffer: the bytes of a line
\* with its delimiter, or the rest of the stream when it ends without one;
\* "bad" is a byte that is not valid UTF-8
Chunks == {<<"a", CR, LF>>, <<"bad", LF>>, <<"a">>}

StreamEnds == {"eof", "error", "stalled"}

\* only the last read before end-of-stream can come without the delimiter
Streams ==
    {s \in [reads : UNION {[1..n -> Chunks] : n \in 0..MaxLines}, end : StreamEnds] :
        \A i \in DOMAIN s.reads :
            s.reads[i][Len(s.reads[i])] # LF => i = Len(s.reads) /\ s.end = "eof"}

PopIfEndsWith(buffer, byte) ==
    IF buffer # <<>> /\ buffer[Len(buffer)] = byte
    THEN SubSeq(buffer, 1, Len(buffer) - 1)
    ELSE buffer

\* String::from_utf8_lossy: an invalid byte becomes the replacement character
from_utf8_lossy(buffer) ==
    [i \in DOMAIN buffer |-> IF buffer[i] = "bad" THEN "U+FFFD" ELSE buffer[i]]

\* the line of a buffer: the trailing line feed, then the trailing carriage
\* return removed, then the lossy conversion
Line(buffer) == from_utf8_lossy(PopIfEndsWith(PopIfEndsWith(buffer, LF), CR))

\* the event the frontend receives
emit_agent_output(events, instance_id, stream, line) ==
    Append(events, [instance_id |-> instance_id, stream |-> stream, line |-> line])

\* lines 1278-1368: the log file is opened (or not), the two threads start
SpawnReaders ==
    /\ agent_log = NoAgentLog
    /\ \E id \in InstanceIds, opened \in BOOLEAN, out \in Streams, err \in Streams :
        agent_log' =
            [NoAgentLog EXCEPT
                !.instance_id = id,
                !.opened = opened,
                !.readers = [s \in StreamNames |->
                    LET stream == IF s = "stdout" THEN out ELSE err IN
                    [reads |-> stream.reads, end |-> stream.end, pos |-> 0,
                     state |-> "reading"]]]
    /\ UNCHANGED <<libLoaded, libLock, regLock, instances, native, procs, pc, loc,
                   cached_adb_devices, cached_win32_windows>>

\* variant: an event is tagged stdout whatever the stream
ReaderEmitUntagged(log, s, line) ==
    [log EXCEPT
        !.file = IF log.opened THEN Append(@, <<s, line>>) ELSE @,
        !.events = emit_agent_output(@, log.instance_id, "stdout", line)]

\* the Ok(_) arm: the line goes to the log file if it is open, and to the
\* frontend
ReaderEmit(log, s, line) ==
    [log EXCEPT
        !.file = IF log.opened THEN Append(@, <<s, line>>) ELSE @,
        !.events = emit_agent_output(@, log.instance_id, s, line)]

\* one turn of the loop of the thread reading stream s; a read on a stalled
\* stream does not return
ReaderLoop(s) ==
    /\ agent_log.readers[s].state = "reading"
    /\ LET r == agent_log.readers[s] IN
       IF r.pos < Len(r.reads)
       THEN agent_log' =
                [ReaderEmit(agent_log, s, Line(r.reads[r.pos + 1]))
                    EXCEPT !.readers[s].pos = r.pos + 1]
       ELSE /\ r.end \in {"eof", "error"}
            /\ agent_log' = [agent_log EXCEPT !.readers[s].state = "ended"]
    /\ UNCHANGED <<libLoaded, libLock, regLock, instances, native, procs, pc, loc,
                   cached_adb_devices, cached_win32_windows>>

NextReaders == SpawnReaders \/ \E s \in StreamNames : ReaderLoop(s)

SpecReaders == Init /\ [][NextReaders]_vars

\* maa_connect_controller with every pair of mask strings
NextConnect ==
    \E t \in Threads :
        \/ \E id \in InstanceIds : maa_create_instance(t, id)
        \/ \E id \in InstanceIds, config \in ControllerConfigs :
               \E screencap_methods \in MaskStrings, input_methods \in MaskStrings :
                   connect_controller(t, id, config, screencap_methods, input_methods)
        \/ connect_controller_store(t)
        \/ Finish(t)

SpecConnect == Init /\ [][NextConnect]_vars

\* The host searches and reads the caches from two threads, with the library
\* loaded at startup or by maa_init
NextDiscovery ==
    \E t \in Threads :
        \/ maa_init(t)
        \/ Discovery(t)
        \/ maa_get_all_states(t)
        \/ get_all_states_body(t)
        \/ Finish(t)

SpecDiscovery == Init /\ [][NextDiscovery]_vars

\* The library directory was not found at startup and maa_init has not
\* loaded it: the host calls every command, on two instances from two
\* threads; the steps are those a command can take without the library
NextUnloaded ==
    \E t \in Threads :
        \/ \E id \in InstanceIds : Command(t, id) \/ Query(t, id)
        \/ maa_find_adb_devices(t)
        \/ maa_find_win32_windows(t)
        \/ maa_get_cached_adb_devices(t)
        \/ maa_get_cached_win32_windows(t)
        \/ maa_get_all_states(t)
        \/ get_all_states_body(t)
        \/ destroy_instance_drop(t)
        \/ Finish(t)

InitUnloaded == Init /\ ~libLoaded

SpecUnloaded == InitUnloaded /\ [][NextUnloaded]_vars

\* ========================================================================
\* Properties
\* ========================================================================
\* thread t has returned from cmd
Returned(t, cmd) == pc[t] = "done" /\ loc[t].cmd = cmd

\* the native calls of a command, as <<function, handle>> pairs
CallsOf(t) == [i \in DOMAIN loc[t].calls |-> <<loc[t].calls[i].fn, loc[t].calls[i].h>>]

HasCall(t, fn) == \E i \in DOMAIN loc[t].calls : loc[t].calls[i].fn = fn

\* ------------------------------------------------------------------------
\* C1: in every reachable state an instance whose tasker field is populated
\* has its resource and controller fields populated, and no tasker the
\* engine holds was created and bound with either of them absent.
\* ------------------------------------------------------------------------
TaskerHasResourceAndController ==
    /\ \A id \in DOMAIN instances :
        instances[id].tasker # NULL =>
            instances[id].resource # NULL /\ instances[id].controller # NULL
    /\ \A h \in Handles :
        native["tasker"][h].state = "live" =>
            native["tasker"][h].res # NULL /\ native["tasker"][h].ctrl # NULL

\* maa_run_task has just created the tasker of an instance
TaskerCreatedByRunTask ==
    \E t \in Threads :
        /\ Returned(t, "maa_run_task")
        /\ loc[t].ret = "Ok"
        /\ HasCall(t, "maa_tasker_create")
        /\ instances[loc[t].id].tasker # NULL

\* ------------------------------------------------------------------------
\* C2: in every reachable state the tasker of an instance is bound to
\* exactly the resource and the controller the instance currently holds.
\* ------------------------------------------------------------------------
TaskerBoundToCurrentHandles ==
    \A id \in DOMAIN instances :
        LET r == instances[id] IN
        r.tasker # NULL =>
            /\ native["tasker"][r.tasker].res = r.resource
            /\ native["tasker"][r.tasker].ctrl = r.controller

\* ------------------------------------------------------------------------
\* C3: no resource and no controller is ever destroyed while a tasker that
\* was bound to it is still alive.
\* ------------------------------------------------------------------------
NoDestroyUnderLiveTasker ==
    \A kind \in {"resource", "controller"}, h \in Handles :
        ~native[kind][h].dangling

\* ------------------------------------------------------------------------
\* C4: when maa_destroy_instance removes an existing instance, the release
\* calls are exactly, in this order and skipping absent fields: agent
\* client disconnect, agent client destroy, child kill, tasker destroy,
\* controller destroy, resource destroy.
\* ------------------------------------------------------------------------
ReleaseOf(h, fns) == IF h = NULL THEN <<>> ELSE [i \in DOMAIN fns |-> <<fns[i], h>>]

TeardownOrder(r) ==
    ReleaseOf(r.agent_client, <<"maa_agent_client_disconnect", "maa_agent_client_destroy">>)
    \o ReleaseOf(r.agent_child, <<"child_kill">>)
    \o ReleaseOf(r.tasker, <<"maa_tasker_destroy">>)
    \o ReleaseOf(r.controller, <<"maa_controller_destroy">>)
    \o ReleaseOf(r.resource, <<"maa_resource_destroy">>)

TeardownInOrder ==
    \A t \in Threads :
        Returned(t, "maa_destroy_instance") /\ loc[t].had =>
            CallsOf(t) = TeardownOrder(loc[t].removed)

\* an instance holding all five has been torn down
FullInstanceTornDown ==
    \E t \in Threads :
        /\ Returned(t, "maa_destroy_instance")
        /\ loc[t].had
        /\ Len(loc[t].calls) = 6

\* ------------------------------------------------------------------------
\* C5: after maa_destroy_instance returns for an existing instance, every
\* handle the instance held has been destroyed exactly once, its child
\* process has been killed, and the registry holds neither the instance nor
\* any of its handles.
\* ------------------------------------------------------------------------
TeardownComplete ==
    \A t \in Threads :
        Returned(t, "maa_destroy_instance") /\ loc[t].had =>
            LET r == loc[t].removed IN
            /\ \A kind \in Kinds :
                r[kind] # NULL =>
                    /\ native[kind][r[kind]].state = "dead"
                    /\ native[kind][r[kind]].destroys = 1
                    /\ \A id \in DOMAIN instances : instances[id][kind] # r[kind]
            /\ r.agent_child # NULL =>
                    /\ procs[r.agent_child].state \in {"killed", "reaped"}
                    /\ \A id \in DOMAIN instances : instances[id].agent_child # r.agent_child
            /\ loc[t].id \notin DOMAIN instances

\* an instance with an agent process and a tasker has been torn down
AgentInstanceTornDown ==
    \E t \in Threads :
        /\ Returned(t, "maa_destroy_instance")
        /\ loc[t].had
        /\ loc[t].removed.agent_child # NULL
        /\ loc[t].removed.tasker # NULL
        /\ loc[t].removed.agent_client # NULL

\* ------------------------------------------------------------------------
\* C6: the cached task ids of an instance only grow: every step of a
\* command other than maa_stop_task leaves the sequence a prefix of what it
\* is afterwards, and what is added are ids the command's posts returned.
\* ------------------------------------------------------------------------
IsPrefix(s1, s2) ==
    Len(s1) <= Len(s2) /\ \A i \in DOMAIN s1 : s1[i] = s2[i]

\* thread t takes a step of a command (not the host reading a result)
StepOf(t) == pc'[t] # pc[t] /\ pc[t] # "done"

TaskIdsOnlyGrow ==
    [][\A t \in Threads :
        StepOf(t) /\ loc'[t].cmd # "maa_stop_task" =>
            \A id \in DOMAIN instances \cap DOMAIN instances' :
                /\ IsPrefix(instances[id].task_ids, instances'[id].task_ids)
                /\ \A i \in (Len(instances[id].task_ids) + 1)..Len(instances'[id].task_ids) :
                    /\ instances'[id].task_ids[i] # MAA_INVALID_ID
                    /\ \E j \in DOMAIN loc'[t].calls :
                        /\ loc'[t].calls[j].fn = "maa_tasker_post_task"
                        /\ loc'[t].calls[j].out = instances'[id].task_ids[i]]_vars

\* ------------------------------------------------------------------------
\* C7: a step of a command invoked with one instance id leaves every field
\* of every other instance unchanged and destroys no handle and kills no
\* process the other instance holds, whatever else is in progress.
\* ------------------------------------------------------------------------
OtherInstancesUntouched ==
    [][\A t \in Threads :
        StepOf(t) =>
            \A other \in DOMAIN instances \ {loc'[t].id} :
                /\ other \in DOMAIN instances'
                /\ instances'[other] = instances[other]
                /\ \A kind \in Kinds :
                    instances[other][kind] # NULL =>
                        native'[kind][instances[other][kind]] =
                            native[kind][instances[other][kind]]
                /\ instances[other].agent_child # NULL =>
                        procs'[instances[other].agent_child] =
                            procs[instances[other].agent_child]]_vars

\* an instance has been torn down while another one holds handles
TornDownBesideLoadedInstance ==
    \E t \in Threads, other \in DOMAIN instances :
        /\ Returned(t, "maa_destroy_instance")
        /\ loc[t].had
        /\ loc[t].removed.resource # NULL
        /\ other # loc[t].id
        /\ instances[other].resource # NULL

\* ------------------------------------------------------------------------
\* C8: a command on one instance is never blocked by a command in progress
\* on another: while maa_start_tasks waits in the agent client's connect
\* call, an idle thread can start any engine command on another instance.
\* ------------------------------------------------------------------------
NotBlockedByOtherInstance ==
    \A t \in Threads, u \in Threads, id \in InstanceIds :
        pc[t] = "start_connect" /\ pc[u] = "idle" /\ id # loc[t].id =>
            /\ ENABLED maa_connect_controller(u, id)
            /\ ENABLED maa_load_resource(u, id)
            /\ ENABLED maa_run_task(u, id)
            /\ ENABLED maa_stop_task(u, id)

\* ------------------------------------------------------------------------
\* C9: no native call that waits for an external event is made with the
\* MAA_LIBRARY lock held: a thread inside the agent client's connect call
\* does not own the lock.
\* ------------------------------------------------------------------------
NoWaitUnderLibraryLock ==
    \A t \in Threads : pc[t] = "start_connect" => libLock # t

\* ------------------------------------------------------------------------
\* C10: a command never holds its registry guard during a native call that
\* may block without bound: the controller's post connection, the
\* resource's post bundle, the tasker's post task and the agent client's
\* connect are made with the guard released.
\* ------------------------------------------------------------------------
UnboundedCalls ==
    {"maa_controller_post_connection", "maa_resource_post_bundle",
     "maa_tasker_post_task", "maa_agent_client_connect"}

CreateInstanceIdempotent ==
    [][\A t \in Threads :
        StepOf(t) /\ loc'[t].cmd = "maa_create_instance" =>
            LET id == loc'[t].id IN
            /\ pc'[t] = "done"
            /\ loc'[t].ret = "Ok"
            /\ loc'[t].calls = <<>>
            /\ native' = native
            /\ procs' = procs
            /\ IF id \in DOMAIN instances
               THEN instances' = instances
               ELSE /\ DOMAIN instances' = DOMAIN instances \cup {id}
                    /\ instances'[id] = InstanceRuntimeDefault
                    /\ \A k \in DOMAIN instances : instances'[k] = instances[k]]_vars

\* maa_create_instance has returned for an instance that holds handles, an
\* agent process and task ids, with another instance in the registry
CreatedOverPopulatedInstance ==
    \E t \in Threads :
        /\ Returned(t, "maa_create_instance")
        /\ loc[t].had
        /\ instances[loc[t].id].tasker # NULL
        /\ instances[loc[t].id].agent_child # NULL
        /\ instances[loc[t].id].task_ids # <<>>
        /\ \E other \in DOMAIN instances : other # loc[t].id

\* ------------------------------------------------------------------------
\* C12: maa_destroy_instance on an id that is not in the registry returns
\* success, makes no native call and leaves the registry, the handles and
\* the processes unchanged (so a second call in a row changes nothing).
\* ------------------------------------------------------------------------
DestroyAbsentInstanceIsNoOp ==
    [][\A t \in Threads :
        /\ StepOf(t)
        /\ loc'[t].cmd = "maa_destroy_instance"
        /\ pc[t] = "idle"
        /\ loc'[t].id \notin DOMAIN instances
        => /\ pc'[t] = "done"
           /\ loc'[t].ret = "Ok"
           /\ loc'[t].calls = <<>>
           /\ instances' = instances
           /\ native' = native
           /\ procs' = procs]_vars

\* maa_destroy_instance has returned for an absent id while another
\* instance holds handles
DestroyedAbsentBesideLoadedInstance ==
    \E t \in Threads, other \in DOMAIN instances :
        /\ Returned(t, "maa_destroy_instance")
        /\ ~loc[t].had
        /\ instances[other].resource # NULL
        /\ instances[other].controller # NULL

\* ------------------------------------------------------------------------
\* C13: with the library loaded, every instance-scoped command other than
\* create and destroy that runs while its instance id is not in the
\* registry returns the instance-not-found error.
\* ------------------------------------------------------------------------
InstanceScoped(cmd) ==
    cmd \notin {"", "maa_create_instance", "maa_destroy_instance", "maa_get_all_states"}

MissingInstanceIsReported ==
    \A t \in Threads :
        /\ pc[t] = "done"
        /\ InstanceScoped(loc[t].cmd)
        /\ loc[t].ret # "MaaFramework not initialized"
        /\ ~loc[t].had
        /\ loc[t].id \notin DOMAIN instances
        => loc[t].ret = "Instance not found"

\* ------------------------------------------------------------------------
\* C14: a successful maa_destroy_resource leaves the resource and tasker
\* fields empty with both handles destroyed and every other field of the
\* instance unchanged; maa_run_task on an instance without a resource fails
\* with the resource-not-loaded error, and a maa_run_task that succeeds on
\* an instance without a tasker creates the tasker it posts on.
\* ------------------------------------------------------------------------
DestroyResourceFrame ==
    [][\A t \in Threads :
        LET id == loc'[t].id IN
        /\ (/\ StepOf(t)
            /\ loc'[t].cmd = "maa_destroy_resource"
            /\ pc'[t] = "done"
            /\ loc'[t].ret = "Ok"
            => /\ id \in DOMAIN instances /\ id \in DOMAIN instances'
               /\ instances'[id] = [instances[id] EXCEPT !.resource = NULL, !.tasker = NULL]
               /\ instances[id].resource # NULL =>
                    native'["resource"][instances[id].resource].state = "dead"
               /\ instances[id].tasker # NULL =>
                    native'["tasker"][instances[id].tasker].state = "dead"
               /\ \A kind \in {"controller", "agent_client"} :
                    instances[id][kind] # NULL =>
                        native'[kind][instances[id][kind]] = native[kind][instances[id][kind]]
               /\ procs' = procs)
        /\ (/\ StepOf(t)
            /\ loc'[t].cmd = "maa_run_task"
            /\ pc[t] = "run_reg"
            /\ id \in DOMAIN instances
            => /\ instances[id].resource = NULL =>
                    /\ loc'[t].ret = "Resource not loaded"
                    /\ loc'[t].calls = <<>>
                    /\ instances' = instances
               /\ instances[id].tasker = NULL /\ instances'[id].tasker # NULL =>
                    /\ native["tasker"][instances'[id].tasker].state = "free"
                    /\ native'["tasker"][instances'[id].tasker].res = instances[id].resource
                    /\ native'["tasker"][instances'[id].tasker].ctrl = instances[id].controller)]_vars

\* maa_destroy_resource has destroyed a resource and the tasker bound to it
\* on an instance that keeps its controller and its task ids
ResourceAndTaskerDestroyed ==
    \E t \in Threads :
        /\ Returned(t, "maa_destroy_resource")
        /\ loc[t].ret = "Ok"
        /\ HasCall(t, "maa_resource_destroy")
        /\ HasCall(t, "maa_tasker_destroy")
        /\ instances[loc[t].id].controller # NULL
        /\ instances[loc[t].id].task_ids # <<>>

\* ------------------------------------------------------------------------
\* C15: maa_get_task_status answers with exactly one TaskStatus for every
\* native status code: Pending, Running and Succeeded for the three codes
\* of these names, Failed for every other code.
\* ------------------------------------------------------------------------
\* the code the last native call of the command returned
LastOut(t) == loc[t].calls[Len(loc[t].calls)].out

StatusMappingTotal ==
    \A t \in Threads :
        Returned(t, "maa_get_task_status") /\ loc[t].ret = "Ok" =>
            /\ Len(loc[t].calls) = 1
            /\ loc[t].calls[1].fn = "maa_tasker_status"
            /\ Len(loc[t].val) = 1
            /\ loc[t].val[1] \in {"Pending", "Running", "Succeeded", "Failed"}
            /\ loc[t].val[1] = "Pending" <=> LastOut(t) = MAA_STATUS_PENDING
            /\ loc[t].val[1] = "Running" <=> LastOut(t) = MAA_STATUS_RUNNING
            /\ loc[t].val[1] = "Succeeded" <=> LastOut(t) = MAA_STATUS_SUCCEEDED

\* the engine answered with a negative code, which the bridge does not name
UnnamedStatusReported ==
    \E t \in Threads :
        /\ Returned(t, "maa_get_task_status")
        /\ loc[t].ret = "Ok"
        /\ LastOut(t) < 0
        /\ loc[t].val = <<"Failed">>

\* ------------------------------------------------------------------------
\* C16: when maa_connect_controller fails because the native create
\* returned null or the connection post returned the invalid id, it returns
\* an error, the registry is unchanged and no stored controller is touched;
\* after a failed post the controller the call created has been destroyed
\* exactly once.
\* ------------------------------------------------------------------------
DestroyCalls(calls, h) ==
    {i \in DOMAIN calls : calls[i].fn = "maa_controller_destroy" /\ calls[i].h = h}

ConnectFailureKeepsController ==
    [][\A t \in Threads :
        /\ StepOf(t)
        /\ loc'[t].cmd = "maa_connect_controller"
        /\ loc'[t].ret \in {"Failed to create controller", "Failed to post connection"}
        => /\ instances' = instances
           /\ \A id \in DOMAIN instances :
                instances[id].controller # NULL =>
                    native'["controller"][instances[id].controller]
                        = native["controller"][instances[id].controller]
           /\ loc'[t].ret = "Failed to create controller" => native' = native
           /\ loc'[t].ret = "Failed to post connection" =>
                \E i \in DOMAIN loc'[t].calls :
                    LET created == loc'[t].calls[i].out IN
                    /\ loc'[t].calls[i].fn = "maa_controller_create"
                    /\ created # NULL
                    /\ native["controller"][created].state = "free"
                    /\ native'["controller"][created].state = "dead"
                    /\ native'["controller"][created].destroys = 1
                    /\ Cardinality(DestroyCalls(loc'[t].calls, created)) = 1]_vars

\* the connection post failed on an instance that has a controller
PostFailedBesideStoredController ==
    \E t \in Threads :
        /\ Returned(t, "maa_connect_controller")
        /\ loc[t].ret = "Failed to post connection"
        /\ loc[t].id \in DOMAIN instances
        /\ instances[loc[t].id].controller # NULL

\* ------------------------------------------------------------------------
\* C17: maa_connect_controller destroys the controller of an instance only
\* in a call that created a new controller and posted its connection, and
\* that call stores the new handle in the field; the controller field never
\* refers to a destroyed controller, and an instance that has a controller
\* keeps having one.
\* ------------------------------------------------------------------------
ControllerReplacedOnlyBySuccessor ==
    [][/\ \A id \in DOMAIN instances' :
            instances'[id].controller # NULL =>
                native'["controller"][instances'[id].controller].state = "live"
       /\ \A id \in DOMAIN instances \cap DOMAIN instances' :
            instances[id].controller # NULL => instances'[id].controller # NULL
       /\ \A t \in Threads, id \in DOMAIN instances :
            LET old == instances[id].controller IN
            /\ StepOf(t)
            /\ loc'[t].cmd = "maa_connect_controller"
            /\ old # NULL
            /\ native'["controller"][old].state = "dead"
            => /\ id = loc[t].id
               /\ loc'[t].ret = "Ok"
               /\ loc[t].controller # NULL
               /\ loc[t].controller # old
               /\ native["controller"][loc[t].controller].state = "live"
               /\ \E i \in DOMAIN loc[t].calls :
                    /\ loc[t].calls[i].fn = "maa_controller_post_connection"
                    /\ loc[t].calls[i].h = loc[t].controller
               /\ instances'[id].controller = loc[t].controller]_vars

\* maa_connect_controller has replaced the controller of an instance
ControllerReplaced ==
    \E t \in Threads :
        /\ Returned(t, "maa_connect_controller")
        /\ loc[t].ret = "Ok"
        /\ DestroyCalls(loc[t].calls, loc[t].controller) = {}
        /\ \E i \in DOMAIN loc[t].calls : loc[t].calls[i].fn = "maa_controller_destroy"
        /\ instances[loc[t].id].controller = loc[t].controller

\* ------------------------------------------------------------------------
\* C18: a command that ends in the instance-not-found error or in a
\* precondition error (resource, controller or tasker absent) has made no
\* native call.
\* ------------------------------------------------------------------------
PreconditionErrors ==
    {"Instance not found", "Resource not loaded", "Controller not connected",
     "Tasker not created"}

PreconditionErrorsBeforeNativeCalls ==
    \A t \in Threads :
        pc[t] = "done" /\ loc[t].ret \in PreconditionErrors => loc[t].calls = <<>>

\* ------------------------------------------------------------------------
\* C19: when no command is in progress, every live native handle is stored
\* in the field of its kind of exactly one instance of the registry.
\* ------------------------------------------------------------------------
Owners(kind, h) == {id \in DOMAIN instances : instances[id][kind] = h}

NoOrphanedHandle ==
    (\A t \in Threads : pc[t] \in {"idle", "done"}) =>
        \A kind \in Kinds, h \in Handles :
            native[kind][h].state = "live" => Cardinality(Owners(kind, h)) = 1

\* ------------------------------------------------------------------------
\* C20: when the agent process of maa_start_tasks cannot be spawned, the
\* command returns an error without posting a task, and the resource and
\* controller of the instance are the same handles as before, alive, so
\* that the lookups of a following maa_start_tasks succeed.
\* ------------------------------------------------------------------------
SpawnFailureKeepsHandles ==
    [][\A t \in Threads :
        /\ StepOf(t)
        /\ loc'[t].cmd = "maa_start_tasks"
        /\ \E i \in DOMAIN loc'[t].calls :
            loc'[t].calls[i].fn = "spawn" /\ loc'[t].calls[i].out = NULL
        => LET id == loc'[t].id IN
           /\ pc'[t] = "done"
           /\ loc'[t].ret = "Failed to start agent process"
           /\ ~\E i \in DOMAIN loc'[t].calls : loc'[t].calls[i].fn = "maa_tasker_post_task"
           /\ id \in DOMAIN instances /\ id \in DOMAIN instances'
           /\ instances'[id].task_ids = instances[id].task_ids
           /\ \A kind \in {"resource", "controller"} :
                /\ instances[id][kind] # NULL
                /\ instances'[id][kind] = instances[id][kind]
                /\ native'[kind][instances[id][kind]].state = "live"
                /\ native'[kind][instances[id][kind]].destroys = 0
           /\ instances'[id].tasker # NULL
           /\ native'["tasker"][instances'[id].tasker].state = "live"]_vars

\* the spawn of the agent process has failed in maa_start_tasks
AgentSpawnFailed ==
    \E t \in Threads :
        /\ Returned(t, "maa_start_tasks")
        /\ loc[t].ret = "Failed to start agent process"
        /\ HasCall(t, "maa_agent_client_create_v2")
        /\ instances[loc[t].id].resource # NULL

\* ------------------------------------------------------------------------
\* C21: when the connect call of the agent client fails in maa_start_tasks,
\* the command returns an error, the agent client has been destroyed and the
\* agent-client field of the instance is unpopulated, the spawned process is
\* in the agent-process field and has not been killed, and no task has been
\* posted; a later maa_stop_agent on the instance kills that process.
\* ------------------------------------------------------------------------
ConnectFailed(calls) ==
    \E i \in DOMAIN calls :
        calls[i].fn = "maa_agent_client_connect returned" /\ calls[i].out = 0

AgentConnectFailureRetainsProcess ==
    [][\A t \in Threads :
        /\ /\ StepOf(t)
           /\ pc'[t] = "done"
           /\ loc'[t].cmd = "maa_start_tasks"
           /\ ConnectFailed(loc'[t].calls)
           => LET id == loc'[t].id
                  agent_client == loc'[t].agent_client
                  child == loc'[t].child
              IN
              /\ loc'[t].ret = "Failed to connect to agent"
              /\ native'["agent_client"][agent_client].state = "dead"
              /\ native'["agent_client"][agent_client].destroys = 1
              /\ id \in DOMAIN instances'
              /\ instances'[id].agent_client = NULL
              /\ instances'[id].agent_child = child
              /\ procs'[child].state = "running"
              /\ procs'[child].kills = 0
              /\ ~\E i \in DOMAIN loc'[t].calls :
                    loc'[t].calls[i].fn = "maa_tasker_post_task"
        /\ /\ pc[t] = "stop_agent_reg"
           /\ pc'[t] = "done"
           /\ loc'[t].ret = "Ok"
           => \A p \in Procs :
                /\ procs[p].owner = loc[t].id
                /\ procs[p].connect = "failed"
                /\ procs[p].state = "running"
                => /\ procs'[p].state = "reaped"
                   /\ \E i \in DOMAIN loc'[t].calls :
                        loc'[t].calls[i].fn = "child_kill" /\ loc'[t].calls[i].h = p]_vars

\* ------------------------------------------------------------------------
\* C22: maa_stop_agent on an existing instance disconnects and then
\* destroys the agent client if there is one, then kills and reaps the
\* agent process if there is one, and nothing else; it returns success with
\* both fields empty and the resource, controller, tasker and task ids as
\* they were. On an instance with both fields empty, which is what a first
\* call leaves, it returns success, makes no call and changes nothing.
\* ------------------------------------------------------------------------
StopAgentCalls(r) ==
    (IF r.agent_client # NULL
     THEN << <<"maa_agent_client_disconnect", r.agent_client>>,
             <<"maa_agent_client_destroy", r.agent_client>> >>
     ELSE <<>>)
    \o (IF r.agent_child # NULL
        THEN << <<"child_kill", r.agent_child>>, <<"child_wait", r.agent_child>> >>
        ELSE <<>>)

StopAgentIdempotent ==
    [][\A t \in Threads :
        /\ pc[t] = "stop_agent_reg"
        /\ pc'[t] = "done"
        /\ loc[t].id \in DOMAIN instances
        => LET id == loc[t].id
               r == instances[id]
           IN
           /\ loc'[t].ret = "Ok"
           /\ [i \in DOMAIN loc'[t].calls |->
                 <<loc'[t].calls[i].fn, loc'[t].calls[i].h>>] = StopAgentCalls(r)
           /\ instances' = [instances EXCEPT ![id].agent_client = NULL,
                                             ![id].agent_child = NULL]
           /\ r.agent_client # NULL =>
                /\ native'["agent_client"][r.agent_client].state = "dead"
                /\ native'["agent_client"][r.agent_client].destroys = 1
           /\ r.agent_child # NULL => procs'[r.agent_child].state = "reaped"
           /\ r.agent_client = NULL /\ r.agent_child = NULL =>
                /\ loc'[t].calls = <<>>
                /\ instances' = instances
                /\ native' = native
                /\ procs' = procs]_vars

\* maa_stop_agent has stopped an agent client and its process on an
\* instance that has a tasker and cached task ids
AgentStopped ==
    \E t \in Threads :
        /\ Returned(t, "maa_stop_agent")
        /\ loc[t].ret = "Ok"
        /\ Len(loc[t].calls) = 4
        /\ instances[loc[t].id].agent_client = NULL
        /\ instances[loc[t].id].agent_child = NULL
        /\ instances[loc[t].id].tasker # NULL
        /\ instances[loc[t].id].task_ids # <<>>

\* ------------------------------------------------------------------------
\* C23: once maa_stop_agent has returned for an instance, or the instance
\* has been destroyed, no process that maa_start_tasks spawned for that
\* instance is still running.
\* ------------------------------------------------------------------------
AgentProcessesTerminated ==
    \A t \in Threads :
        \/ Returned(t, "maa_stop_agent") /\ loc[t].ret = "Ok"
        \/ Returned(t, "maa_destroy_instance") /\ loc[t].had
        => \A p \in Procs :
            procs[p].owner = loc[t].id => procs[p].state # "running"

\* ------------------------------------------------------------------------
\* C24: in every reachable state, an instance whose agent-client field is
\* populated has its resource field populated with the live resource the
\* agent client was bound to when it was created.
\* ------------------------------------------------------------------------
AgentClientBoundToResource ==
    \A id \in DOMAIN instances :
        LET agent_client == instances[id].agent_client
            resource == instances[id].resource
        IN
        agent_client # NULL =>
            /\ resource # NULL
            /\ native["agent_client"][agent_client].res = resource
            /\ native["resource"][resource].state = "live"

\* ------------------------------------------------------------------------
\* C25: a successful maa_stop_task leaves the task ids of the instance
\* empty and every handle field as it was, makes exactly one call, the post
\* of the stop request on the instance's tasker with the registry guard
\* released, and returns without waiting: no handle and no process changes,
\* the tasker stays in its field alive, so that maa_is_running still asks
\* the engine and may be answered true.
\* ------------------------------------------------------------------------
StopTaskPostsAndReturns ==
    [][\A t \in Threads :
        /\ pc[t] = "stop_reg"
        /\ pc'[t] = "done"
        /\ loc'[t].ret = "Ok"
        => LET id == loc[t].id IN
           /\ id \in DOMAIN instances
           /\ instances' = [instances EXCEPT ![id].task_ids = <<>>]
           /\ instances[id].tasker # NULL
           /\ Len(loc'[t].calls) = 1
           /\ loc'[t].calls[1].fn = "maa_tasker_post_stop"
           /\ loc'[t].calls[1].h = instances[id].tasker
           /\ ~loc'[t].calls[1].reg
           /\ native' = native
           /\ procs' = procs
           /\ native'["tasker"][instances'[id].tasker].state = "live"
           /\ libLock' # t /\ regLock' # t]_vars

\* maa_stop_task has posted the stop request on the tasker of an instance
\* that also holds an agent client
TaskStopPosted ==
    \E t \in Threads :
        /\ Returned(t, "maa_stop_task")
        /\ loc[t].ret = "Ok"
        /\ HasCall(t, "maa_tasker_post_stop")
        /\ instances[loc[t].id].task_ids = <<>>
        /\ instances[loc[t].id].tasker # NULL
        /\ instances[loc[t].id].agent_client # NULL

\* ------------------------------------------------------------------------
\* C26: maa_is_running on an existing instance without a tasker returns the
\* success value false and makes no native call; with a tasker it makes the
\* native running query on it and returns true exactly when the answer is
\* not zero.
\* ------------------------------------------------------------------------
IsRunningAnswer ==
    [][\A t \in Threads :
        /\ pc[t] = "running_reg"
        /\ pc'[t] = "done"
        /\ loc[t].id \in DOMAIN instances
        => LET tasker == instances[loc[t].id].tasker IN
           /\ loc'[t].ret = "Ok"
           /\ tasker = NULL =>
                /\ loc'[t].val = <<FALSE>>
                /\ loc'[t].calls = <<>>
           /\ tasker # NULL =>
                /\ Len(loc'[t].calls) = 1
                /\ loc'[t].calls[1].fn = "maa_tasker_running"
                /\ loc'[t].calls[1].h = tasker
                /\ loc'[t].val = <<loc'[t].calls[1].out # 0>>]_vars

\* maa_is_running has answered false, without a call, for an instance that
\* has a resource and a controller but no tasker
NotRunningWithoutTasker ==
    \E t \in Threads :
        /\ Returned(t, "maa_is_running")
        /\ loc[t].ret = "Ok"
        /\ loc[t].val = <<FALSE>>
        /\ loc[t].calls = <<>>
        /\ loc[t].id \in DOMAIN instances
        /\ instances[loc[t].id].tasker = NULL
        /\ instances[loc[t].id].resource # NULL
        /\ instances[loc[t].id].controller # NULL

\* ------------------------------------------------------------------------
\* C27: no step of maa_get_task_status, maa_is_running,
\* maa_get_connection_status, maa_is_resource_loaded, maa_get_instance_state
\* or maa_get_all_states changes the registry, creates or destroys a handle
\* or touches a process, whether the command succeeds or fails.
\* ------------------------------------------------------------------------
PureQueries ==
    {"maa_get_task_status", "maa_is_running", "maa_get_connection_status",
     "maa_is_resource_loaded", "maa_get_instance_state", "maa_get_all_states"}

QueriesLeaveRegistryUnchanged ==
    [][\A t \in Threads :
        StepOf(t) /\ loc'[t].cmd \in PureQueries =>
            /\ instances' = instances
            /\ native' = native
            /\ procs' = procs]_vars

\* maa_get_instance_state has answered for an instance that holds all three
\* handles and cached task ids
InstanceStateRead ==
    \E t \in Threads :
        /\ Returned(t, "maa_get_instance_state")
        /\ loc[t].ret = "Ok"
        /\ Len(loc[t].calls) = 4
        /\ instances[loc[t].id].task_ids # <<>>
        /\ loc[t].val[5] = instances[loc[t].id].task_ids

\* ------------------------------------------------------------------------
\* C28: maa_load_resource on an existing instance creates a resource only
\* when the instance has none and otherwise uses the one it has; it fails
\* only when the resource cannot be created. When it succeeds it has posted
\* one bundle per path, in the order of the list, on the instance's
\* resource, and returns the ids that are not the sentinel, in that order:
\* a refused path is skipped.
\* ------------------------------------------------------------------------
PostsOf(calls, fn) == SelectSeq(calls, LAMBDA c : c.fn = fn)

ArgsOf(calls) == [i \in DOMAIN calls |-> calls[i].arg]

AcceptedOf(calls) ==
    LET accepted == SelectSeq(calls, LAMBDA c : c.out # MAA_INVALID_ID)
    IN  [i \in DOMAIN accepted |-> accepted[i].out]

LoadResourcePostsEveryPath ==
    [][\A t \in Threads :
        /\ pc[t] = "load_reg"
        /\ pc'[t] = "done"
        /\ loc[t].id \in DOMAIN instances
        => LET id == loc[t].id
               calls == loc'[t].calls
               creates == PostsOf(calls, "maa_resource_create")
               posts == PostsOf(calls, "maa_resource_post_bundle")
           IN
           /\ loc'[t].ret \in {"Ok", "Failed to create resource"}
           /\ instances[id].resource # NULL =>
                /\ creates = <<>>
                /\ loc'[t].ret = "Ok"
                /\ instances'[id].resource = instances[id].resource
           /\ instances[id].resource = NULL =>
                /\ Len(creates) = 1
                /\ loc'[t].ret = "Ok" <=> creates[1].out # NULL
                /\ instances'[id].resource = creates[1].out
           /\ loc'[t].ret = "Ok" =>
                /\ ArgsOf(posts) = loc'[t].args
                /\ \A i \in DOMAIN posts : posts[i].h = instances'[id].resource
                /\ loc'[t].val = AcceptedOf(posts)
                /\ native'["resource"][instances'[id].resource].state = "live"]_vars

\* maa_load_resource has reused the resource of the instance for two paths,
\* the first of which the engine refused
SecondPathLoaded ==
    \E t \in Threads :
        /\ Returned(t, "maa_load_resource")
        /\ loc[t].ret = "Ok"
        /\ Len(loc[t].args) = 2
        /\ Len(loc[t].calls) = 2
        /\ loc[t].calls[1].out = MAA_INVALID_ID
        /\ loc[t].val = <<loc[t].calls[2].out>>
        /\ loc[t].val # <<MAA_INVALID_ID>>

\* ------------------------------------------------------------------------
\* C29: a maa_start_tasks that succeeds has posted the given tasks one at a
\* time in the order of the list, on the instance's tasker; a task whose
\* post returned the sentinel is skipped, the posts after it are still
\* made, the returned list is the ids that are not the sentinel in task
\* order, and the task ids of the instance are that list.
\* ------------------------------------------------------------------------
StartTasksPostsEveryTask ==
    \A t \in Threads :
        Returned(t, "maa_start_tasks") /\ loc[t].ret = "Ok" =>
            LET id == loc[t].id
                posts == PostsOf(loc[t].calls, "maa_tasker_post_task")
            IN
            /\ ArgsOf(posts) = loc[t].args
            /\ \A i \in DOMAIN posts : posts[i].h = loc[t].tasker
            /\ loc[t].val = AcceptedOf(posts)
            /\ id \in DOMAIN instances
            /\ instances[id].tasker = loc[t].tasker
            /\ instances[id].task_ids = loc[t].val

\* maa_start_tasks has posted two tasks through an agent, the first of
\* which the engine refused
SecondTaskStarted ==
    \E t \in Threads :
        /\ Returned(t, "maa_start_tasks")
        /\ loc[t].ret = "Ok"
        /\ loc[t].agent
        /\ Len(loc[t].args) = 2
        /\ LET posts == PostsOf(loc[t].calls, "maa_tasker_post_task") IN
           /\ Len(posts) = 2
           /\ posts[1].out = MAA_INVALID_ID
           /\ posts[2].out # MAA_INVALID_ID
           /\ instances[loc[t].id].task_ids = <<posts[2].out>>

\* ------------------------------------------------------------------------
\* C30: maa_run_task and maa_start_tasks never post a task on a tasker that
\* answered the initialized query of that command with false: the command
\* then returns the not-initialized error with no post made, and no step of
\* it has changed the task ids of the instance.
\* ------------------------------------------------------------------------
NotInitialized(calls) ==
    \E i \in DOMAIN calls : calls[i].fn = "maa_tasker_inited" /\ calls[i].out = 0

NoPostOnUninitializedTasker ==
    [][\A t \in Threads :
        StepOf(t) /\ loc'[t].cmd \in {"maa_run_task", "maa_start_tasks"} =>
            /\ NotInitialized(loc'[t].calls) =>
                /\ pc'[t] = "done"
                /\ loc'[t].ret = "Tasker not properly initialized"
                /\ PostsOf(loc'[t].calls, "maa_tasker_post_task") = <<>>
            /\ ~(pc'[t] = "done" /\ loc'[t].ret = "Ok") =>
                \A id \in DOMAIN instances \cap DOMAIN instances' :
                    instances'[id].task_ids = instances[id].task_ids]_vars

\* maa_start_tasks has found the tasker of an instance with cached task ids
\* not initialized, after its agent had connected
StartRefusedUninitialized ==
    \E t \in Threads :
        /\ Returned(t, "maa_start_tasks")
        /\ loc[t].ret = "Tasker not properly initialized"
        /\ NotInitialized(loc[t].calls)
        /\ loc[t].agent
        /\ instances[loc[t].id].task_ids # <<>>

\* ------------------------------------------------------------------------
\* C31: a successful maa_find_adb_devices or maa_find_win32_windows leaves
\* its cache equal to the list it returns, whatever the cache held before
\* and also when the list is empty; the list of devices is the non-null
\* entries the toolkit listed, in order; the other cache is not touched;
\* maa_get_cached_adb_devices and maa_get_cached_win32_windows return the
\* cached list and change nothing.
\* ------------------------------------------------------------------------
ListedEntries(calls, fn) ==
    ArgsOf(SelectSeq(calls, LAMBDA c : c.fn = fn /\ c.out # 0))

DiscoveryCacheIsLastResult ==
    [][\A t \in Threads :
        /\ pc[t] = "adb_cache" /\ pc'[t] = "done" =>
            /\ loc'[t].ret = "Ok"
            /\ loc'[t].val = ListedEntries(loc'[t].calls, "maa_toolkit_adb_device_list_at")
            /\ cached_adb_devices' = loc'[t].val
            /\ cached_win32_windows' = cached_win32_windows
        /\ pc[t] = "win32_cache" /\ pc'[t] = "done" =>
            /\ loc'[t].ret = "Ok"
            /\ cached_win32_windows' = loc'[t].val
            /\ cached_adb_devices' = cached_adb_devices
        /\ StepOf(t) /\ loc'[t].cmd = "maa_get_cached_adb_devices" =>
            /\ loc'[t].ret = "Ok"
            /\ loc'[t].val = cached_adb_devices
            /\ UNCHANGED <<cached_adb_devices, cached_win32_windows>>
        /\ StepOf(t) /\ loc'[t].cmd = "maa_get_cached_win32_windows" =>
            /\ loc'[t].ret = "Ok"
            /\ loc'[t].val = cached_win32_windows
            /\ UNCHANGED <<cached_adb_devices, cached_win32_windows>>]_vars

\* a search for devices has returned the empty list, which is now the
\* cached list, while windows found earlier are still cached
NoDeviceFound ==
    \E t \in Threads :
        /\ Returned(t, "maa_find_adb_devices")
        /\ loc[t].ret = "Ok"
        /\ loc[t].val = <<>>
        /\ cached_adb_devices = <<>>
        /\ cached_win32_windows # <<>>

\* ------------------------------------------------------------------------
\* C32: the two locks never deadlock: whenever a command is in progress,
\* some command in progress can take its next step. In particular no state
\* has one thread holding the registry lock and waiting for MAA_LIBRARY
\* while another holds MAA_LIBRARY and waits for the registry lock.
\* ------------------------------------------------------------------------
CommandsNeverDeadlock ==
    (\E t \in Threads : pc[t] \notin {"idle", "done"}) =>
        \E u \in Threads : ENABLED (Continue(u) \/ QueryContinue(u))

\* ------------------------------------------------------------------------
\* C33: under any interleaving no native function is called with a handle
\* that has already been destroyed (the handle of the call, and the resource
\* or controller a bind call is given), and no handle is destroyed twice,
\* also for the calls made on a handle copied out of the registry after the
\* registry guard is released.
\* ------------------------------------------------------------------------
CreateFns ==
    {"maa_resource_create", "maa_controller_create", "maa_tasker_create",
     "maa_agent_client_create_v2"}

DestroyFns ==
    {"maa_resource_destroy", "maa_controller_destroy", "maa_tasker_destroy",
     "maa_agent_client_destroy"}

HandleKind(fn) ==
    IF fn \in {"maa_resource_create", "maa_resource_add_sink", "maa_resource_post_bundle",
               "maa_resource_loaded", "maa_resource_destroy"}
    THEN "resource"
    ELSE IF fn \in {"maa_controller_create", "maa_controller_add_sink",
                    "maa_controller_set_option", "maa_controller_post_connection",
                    "maa_controller_connected", "maa_controller_post_screencap",
                    "maa_controller_cached_image", "maa_controller_destroy"}
    THEN "controller"
    ELSE IF fn \in {"maa_tasker_create", "maa_tasker_add_sink", "maa_tasker_bind_resource",
                    "maa_tasker_bind_controller", "maa_tasker_inited",
                    "maa_tasker_post_task", "maa_tasker_post_stop", "maa_tasker_running",
                    "maa_tasker_status", "maa_tasker_override_pipeline",
                    "maa_tasker_destroy"}
    THEN "tasker"
    ELSE IF fn \in {"maa_agent_client_create_v2", "maa_agent_client_bind_resource",
                    "maa_agent_client_identifier", "maa_agent_client_set_timeout",
                    "maa_agent_client_connect", "maa_agent_client_connect returned",
                    "maa_agent_client_disconnect", "maa_agent_client_destroy"}
    THEN "agent_client"
    ELSE ""

\* the i-th call of a run of calls is made on a handle that is live when it
\* is made: live before the run or created earlier in it, and not destroyed
\* earlier in it
LiveWhenCalled(nat, new, i) ==
    LET c == new[i]
        k == HandleKind(c.fn)
    IN  (k # "" /\ c.fn \notin CreateFns /\ c.h # NULL) =>
            /\ \/ nat[k][c.h].state = "live"
               \/ \E j \in 1..(i - 1) : new[j].fn \in CreateFns /\ HandleKind(new[j].fn) = k
                                        /\ new[j].out = c.h
            /\ ~\E j \in 1..(i - 1) : new[j].fn \in DestroyFns /\ HandleKind(new[j].fn) = k
                                      /\ new[j].h = c.h

\* what a bind call newly logged on h was given is live after the step, for
\* a handle h that the step leaves alive
BoundToLive(nat, c) ==
    LET k == HandleKind(c.fn) IN
    (k # "" /\ c.h # NULL /\ nat[k][c.h].state = "live") =>
        /\ c.fn \in {"maa_tasker_bind_resource", "maa_agent_client_bind_resource"} =>
               /\ nat[k][c.h].res # NULL
               /\ nat["resource"][nat[k][c.h].res].state = "live"
        /\ c.fn = "maa_tasker_bind_controller" =>
               /\ nat[k][c.h].ctrl # NULL
               /\ nat["controller"][nat[k][c.h].ctrl].state = "live"

NoCallOnDestroyedHandle ==
    [][\A t \in Threads :
        StepOf(t) =>
            LET old == Len(loc[t].calls)
                new == SubSeq(loc'[t].calls, old + 1, Len(loc'[t].calls))
            IN  /\ \A i \in DOMAIN new :
                       LiveWhenCalled(native, new, i) /\ BoundToLive(native', new[i])
                /\ \A k \in Kinds : \A h \in Handles : native'[k][h].destroys <= 1]_vars

\* a tasker handle on which a task was posted without the registry guard is
\* out of the registry, the runtime that held it waiting to be dropped
CopiedHandleOutlivesRegistryEntry ==
    \E t, u \in Threads :
        /\ pc[u] = "destroy_drop"
        /\ libLock = t
        /\ loc[u].removed.tasker # NULL
        /\ \E i \in DOMAIN loc[t].calls :
               /\ loc[t].calls[i].fn = "maa_tasker_post_task"
               /\ loc[t].calls[i].h = loc[u].removed.tasker
               /\ ~loc[t].calls[i].reg
        /\ native["tasker"][loc[u].removed.tasker].state = "live"

\* ------------------------------------------------------------------------
\* C34: the step in which a command returns the instance-not-found error or
\* a precondition error (resource, controller or tasker absent) leaves the
\* registry as it was: no handle field and no task-id sequence changes, in
\* particular in maa_stop_task on an instance without a tasker.
\* ------------------------------------------------------------------------
PreconditionErrorsLeaveRegistry ==
    [][\A t \in Threads :
        (StepOf(t) /\ pc'[t] = "done" /\ loc'[t].ret \in PreconditionErrors) =>
            instances' = instances]_vars

\* ------------------------------------------------------------------------
\* C35: the event callback is registered as the sink of every controller,
\* resource and tasker the bridge creates exactly once, before any request
\* is posted on the handle; a tasker has its resource and its controller
\* bound before the initialized check and before any task post.
\* ------------------------------------------------------------------------
SinkKinds == {"resource", "controller", "tasker"}

SinkFns ==
    {"maa_resource_add_sink", "maa_controller_add_sink", "maa_tasker_add_sink"}

RequestFns ==
    {"maa_controller_post_connection", "maa_controller_post_screencap",
     "maa_resource_post_bundle", "maa_tasker_post_task", "maa_tasker_post_stop"}

\* the positions before i of the calls of the functions fns on the handle of
\* the i-th call
Before(calls, i, fns) ==
    {j \in 1..(i - 1) : /\ calls[j].fn \in fns
                        /\ HandleKind(calls[j].fn) = HandleKind(calls[i].fn)
                        /\ calls[j].h = calls[i].h}

SinkRegisteredOnceBeforePosts ==
    /\ \A k \in SinkKinds : \A h \in Handles :
           native[k][h].state = "live" =>
               /\ native[k][h].sinks = 1
               /\ k = "tasker" => native[k][h].res # NULL /\ native[k][h].ctrl # NULL
    /\ \A t \in Threads : \A i \in DOMAIN loc[t].calls :
           LET calls == loc[t].calls
               c == calls[i]
           IN  (/\ c.fn \in RequestFns \cup {"maa_tasker_inited"}
                /\ c.h # NULL
                /\ Before(calls, i, CreateFns) # {}) =>
                   /\ Cardinality(Before(calls, i, SinkFns)) = 1
                   /\ \A j \in Before(calls, i, SinkFns) :
                          \A n \in Before(calls, i, CreateFns) : n < j
                   /\ HandleKind(c.fn) = "tasker" =>
                          /\ Before(calls, i, {"maa_tasker_bind_resource"}) # {}
                          /\ Before(calls, i, {"maa_tasker_bind_controller"}) # {}

\* a task was accepted on a tasker created, given its sink and bound by the
\* same command
TaskPostedOnNewTasker ==
    \E t \in Threads : \E i \in DOMAIN loc[t].calls :
        /\ loc[t].calls[i].fn = "maa_tasker_post_task"
        /\ loc[t].calls[i].out # MAA_INVALID_ID
        /\ Before(loc[t].calls, i, SinkFns) # {}
        /\ Before(loc[t].calls, i, {"maa_tasker_bind_controller"}) # {}

\* ------------------------------------------------------------------------
\* C36: in maa_start_tasks with an agent configuration the agent steps are
\* made in the order create, bind to the resource, identifier, spawn,
\* set_timeout, connect, each only after the one before it succeeded; the
\* identifier is the last argument of the spawned process; an absent
\* timeout is set as -1; no connect follows a failed spawn and tasks are
\* posted only after the connect succeeded.
\* ------------------------------------------------------------------------
AgentOrder ==
    <<"maa_agent_client_create_v2", "maa_agent_client_bind_resource",
      "maa_agent_client_identifier", "spawn", "maa_agent_client_set_timeout",
      "maa_agent_client_connect">>

IsAgentStep(c) == \E n \in DOMAIN AgentOrder : AgentOrder[n] = c.fn

AgentSteps(calls) == SelectSeq(calls, IsAgentStep)

AgentStepsInOrder ==
    \A t \in Threads :
        loc[t].cmd = "maa_start_tasks" =>
            LET calls == loc[t].calls
                steps == AgentSteps(calls)
                n == Len(steps)
            IN  /\ n <= Len(AgentOrder)
                /\ \A i \in 1..n : steps[i].fn = AgentOrder[i]
                /\ n >= 2 => steps[1].out # NULL /\ steps[2].h = steps[1].out
                /\ (n >= 2 /\ native["agent_client"][steps[2].h].state = "live") =>
                       native["agent_client"][steps[2].h].res = loc[t].resource
                /\ n >= 4 => steps[3].out = 1 /\ steps[4].arg = SocketId
                /\ n >= 5 => /\ steps[4].out # NULL
                             /\ steps[5].out = IF loc[t].timeout.some
                                               THEN loc[t].timeout.ms ELSE -1
                /\ (n >= 1 /\ HasCall(t, "maa_tasker_post_task")) =>
                       /\ n = Len(AgentOrder)
                       /\ \E i, j \in DOMAIN calls :
                              /\ i < j
                              /\ calls[i].fn = "maa_agent_client_connect returned"
                              /\ calls[i].out = 1
                              /\ calls[j].fn = "maa_tasker_inited"
                              /\ \A k \in DOMAIN calls :
                                     calls[k].fn = "maa_tasker_post_task" => j < k

\* an agent started with no timeout configured has connected and a task was
\* accepted
AgentConnectedWithoutTimeout ==
    \E t \in Threads :
        /\ loc[t].cmd = "maa_start_tasks"
        /\ loc[t].agent
        /\ ~loc[t].timeout.some
        /\ \E i \in DOMAIN loc[t].calls :
               loc[t].calls[i].fn = "maa_agent_client_connect returned"
               /\ loc[t].calls[i].out = 1
        /\ AcceptedOf(loc[t].calls) # <<>>

\* ------------------------------------------------------------------------
\* C37: each of the two log-reader loops ends when its stream reaches
\* end-of-stream or a read fails, and does not run again; until then it has
\* emitted every line it read exactly once, in the order read, tagged with
\* the instance id and its own stream name; a loop whose stream has data or
\* has ended can take its turn whatever the state of the other stream.
\* ------------------------------------------------------------------------
EventsOf(s) ==
    LET Mine(e) == e.stream = s IN SelectSeq(agent_log.events, Mine)

ReadersEmitEveryLineOnce ==
    \A s \in StreamNames :
        LET r == agent_log.readers[s]
            mine == EventsOf(s)
        IN  /\ Len(mine) = r.pos
            /\ \A i \in 1..r.pos :
                   mine[i] = [instance_id |-> agent_log.instance_id, stream |-> s,
                              line |-> Line(r.reads[i])]
            /\ r.state = "ended" =>
                   /\ r.pos = Len(r.reads)
                   /\ r.end \in {"eof", "error"}
                   /\ ~ENABLED ReaderLoop(s)
                   /\ ~ENABLED SpawnReaders
            /\ (r.state = "reading" /\ (r.pos < Len(r.reads) \/ r.end # "stalled")) =>
                   ENABLED ReaderLoop(s)

\* stdout has ended after two lines, the last of them emitted after stderr
\* stalled
StdoutDrainedWhileStderrStalled ==
    LET out == agent_log.readers["stdout"]
        err == agent_log.readers["stderr"]
    IN  /\ out.state = "ended" /\ out.pos = MaxLines
        /\ err.state = "reading" /\ err.end = "stalled"
        /\ err.pos = Len(err.reads) /\ err.pos > 0
        /\ agent_log.events[Len(agent_log.events)].stream = "stdout"

\* ------------------------------------------------------------------------
\* C38: maa_connect_controller with an Adb configuration whose screencap or
\* input mask string is not a decimal unsigned 64-bit number, or with a
\* PlayCover configuration, returns an error in its first step: no native
\* call is made, no controller handle is created, no request is posted and
\* the registry (the instance's controller field) is unchanged.
\* ------------------------------------------------------------------------
NotDecimalU64 == {U64MaxPlusOne, <<>>, <<"-", "1">>, <<"0", "x", "7">>}

InvalidControllerInput(l) ==
    \/ l.config = "PlayCover"
    \/ l.config = "Adb" /\ \E i \in DOMAIN l.args : l.args[i] \in NotDecimalU64

InvalidControllerInputRejected ==
    [][\A t \in Threads :
        (/\ StepOf(t)
         /\ loc'[t].cmd = "maa_connect_controller"
         /\ InvalidControllerInput(loc'[t])) =>
            /\ pc'[t] = "done"
            /\ loc'[t].ret \notin {"", "Ok"}
            /\ loc'[t].calls = <<>>
            /\ native' = native
            /\ instances' = instances]_vars

\* an instance that has a controller: a connect with an input mask above
\* u64::MAX was refused and the controller is still the one it had
OverflowingMaskRefused ==
    \E t \in Threads :
        /\ Returned(t, "maa_connect_controller")
        /\ loc[t].args = <<U64MaxDigits, U64MaxPlusOne>>
        /\ loc[t].ret = "Invalid input_methods"
        /\ loc[t].id \in DOMAIN instances
        /\ instances[loc[t].id].controller # NULL

\* ------------------------------------------------------------------------
\* C39: while the library is not loaded, every command that needs a native
\* call returns the library-not-initialized error in its first step, before
\* the registry is locked and the instance looked up, and changes neither
\* the registry nor the discovery caches; maa_create_instance and
\* maa_destroy_instance succeed and maa_get_all_states succeeds with an
\* empty instance map.
\* ------------------------------------------------------------------------
EngineCommands ==
    {"maa_connect_controller", "maa_load_resource", "maa_destroy_resource",
     "maa_run_task", "maa_start_tasks", "maa_stop_task", "maa_stop_agent",
     "maa_override_pipeline", "maa_get_connection_status", "maa_is_resource_loaded",
     "maa_get_task_status", "maa_is_running", "maa_post_screencap",
     "maa_get_cached_image", "maa_get_instance_state", "maa_find_adb_devices",
     "maa_find_win32_windows"}

UnloadedLibraryIsReported ==
    [][\A t \in Threads :
        (StepOf(t) /\ ~libLoaded) =>
            LET l == loc'[t] IN
            /\ l.cmd \in EngineCommands =>
                   /\ pc[t] = "idle" /\ pc'[t] = "done"
                   /\ l.ret = "MaaFramework not initialized"
                   /\ ~l.had /\ l.calls = <<>>
                   /\ regLock' = regLock
                   /\ instances' = instances
                   /\ native' = native
                   /\ UNCHANGED <<cached_adb_devices, cached_win32_windows>>
            /\ l.cmd = "maa_create_instance" =>
                   /\ pc'[t] = "done" /\ l.ret = "Ok"
                   /\ l.id \in DOMAIN instances'
            /\ (l.cmd = "maa_destroy_instance" /\ pc'[t] = "done") =>
                   /\ l.ret = "Ok"
                   /\ l.id \notin DOMAIN instances'
            /\ (l.cmd = "maa_get_all_states" /\ pc'[t] = "done") =>
                   /\ l.ret = "Ok"
                   /\ l.val[1] = <<>>
                   /\ instances' = instances]_vars

\* with the library not loaded and an instance in the registry,
\* maa_run_task on it has returned the library error
RunTaskWithoutLibrary ==
    \E t \in Threads :
        /\ ~libLoaded
        /\ Returned(t, "maa_run_task")
        /\ loc[t].id \in DOMAIN instances
        /\ loc[t].ret = "MaaFramework not initialized"

====
